---- MODULE Spec2Model ----
(***************************************************************************)
(* StockSenseAI: the AI-response parsing and normalisation layer           *)
(* (geminiService) in the five revisions the repository holds.             *)
(*                                                                         *)
(*   rev "A"  src/services/geminiService.ts   lines   1-252                *)
(*   rev "B"  src/services/geminiService.ts   lines 254-528                *)
(*   rev "C"  src/unnamed/part_004            lines   1-256                *)
(*   rev "D"  src/unnamed/part_004            lines 257-518                *)
(*   rev "E"  src/unnamed/part_005            lines   1-230                *)
(*                                                                         *)
(* Text is a sequence of one-character strings.  A JavaScript value is a   *)
(* tagged record: [t |-> "num", n |-> k] is the number k / Scale,          *)
(* [t |-> "nan"] is NaN, [t |-> "undef"] is undefined, [t |-> "null"] is   *)
(* null, [t |-> "str", s |-> chars], [t |-> "arr", a |-> values],          *)
(* [t |-> "obj", f |-> function from keys to values], [t |-> "bool"].      *)
(* A thrown exception is the record [t |-> "error", kind |-> ...].         *)
(***************************************************************************)
EXTENDS Integers, Sequences, FiniteSets, TLC

VARIABLES
    rev,        \* the revision of the service that is running
    text,       \* extractJson: the argument
    payload,    \* extractJson: the JSON document embedded in the argument, <<>> if none
    jsonOut,    \* extractJson: the value returned, [t |-> "pending"] before the call
    apiKey,     \* process.env.API_KEY: "absent", "empty" or "set"
    pc,         \* where the running call of an entry point stands
    fn,         \* the entry point called: "quote" or "analysis"
    symbol,     \* the ticker symbol of the call
    buyPrice,   \* the buy price of the analysed position
    requests,   \* generateContent requests the call has issued
    resp1,      \* the response to the quote request or to the narrative request
    resp2,      \* the response to the forecast request
    result,     \* what the call returned or threw to its caller
    sources,    \* the grounding sources of the value returned
    form,       \* StockInput: the form fields, the suggestions displayed and the
                \* userEmail prop
    submitted,  \* StockInput: the Position passed to onSubmit, if any
    store,      \* localStorage: the activity logs, the profiles, the suggestions
    clock,      \* how many identifiers and timestamps have been drawn
    app,        \* App: viewMode, userEmail, userLocation, stockData, analysis
    calls,      \* App: the calls of analyzeStockPosition that have not settled
    login       \* Login: its fields, its pending timers, its onLoginSuccess calls

extractVars == <<text, payload, jsonOut>>
serviceVars == <<apiKey, pc, fn, symbol, buyPrice, requests, resp1, resp2, result,
                 sources>>
formVars == <<form, submitted>>
storeVars == <<store, clock>>
appVars == <<app, calls>>
uiVars == <<formVars, storeVars, appVars, login>>
vars == <<rev, text, payload, jsonOut, apiKey, pc, fn, symbol, buyPrice,
          requests, resp1, resp2, result, sources, form, submitted, store, clock,
          app, calls, login>>

(***************************************************************************)
(* JavaScript values                                                       *)
(***************************************************************************)
Scale == 100 * 100

Num(k) == [t |-> "num", n |-> k]
NaN == [t |-> "nan"]
Undefined == [t |-> "undef"]
Null == [t |-> "null"]
Str(s) == [t |-> "str", s |-> s]
Bool(b) == [t |-> "bool", b |-> b]
Arr(a) == [t |-> "arr", a |-> a]
Obj(f) == [t |-> "obj", f |-> f]
EmptyObj == Obj(<<>>)
SyntaxError == [t |-> "error", kind |-> "SyntaxError"]

IsError(v) == v.t = "error"

Digits == {"0", "1", "2", "3", "4", "5", "6", "7", "8", "9"}
DigitVal == ("0" :> 0) @@ ("1" :> 1) @@ ("2" :> 2) @@ ("3" :> 3) @@ ("4" :> 4)
            @@ ("5" :> 5) @@ ("6" :> 6) @@ ("7" :> 7) @@ ("8" :> 8) @@ ("9" :> 9)
WhiteSpace == {" ", "\n"}

(* JavaScript truthiness: !v is ~Truthy(v) *)
Truthy(v) ==
    CASE v.t = "undef" -> FALSE
      [] v.t = "null" -> FALSE
      [] v.t = "nan" -> FALSE
      [] v.t = "num" -> v.n # 0
      [] v.t = "str" -> v.s # <<>>
      [] v.t = "bool" -> v.b
      [] OTHER -> TRUE

(***************************************************************************)
(* String primitives of the JavaScript runtime, on sequences of characters *)
(***************************************************************************)
(* the first index at or after i that holds no white space, Len(s) + 1 if none *)
SkipWs(s, i) ==
    IF \E j \in i..Len(s) : s[j] \notin WhiteSpace
    THEN CHOOSE j \in i..Len(s) :
             s[j] \notin WhiteSpace /\ \A k \in i..(j - 1) : s[k] \in WhiteSpace
    ELSE IF i > Len(s) THEN i ELSE Len(s) + 1

(* the last index at or before i that holds no white space, 0 if none *)
SkipWsBack(s, i) ==
    IF \E j \in 1..i : s[j] \notin WhiteSpace
    THEN CHOOSE j \in 1..i :
             s[j] \notin WhiteSpace /\ \A k \in (j + 1)..i : s[k] \in WhiteSpace
    ELSE 0

(* String.prototype.trim *)
Trim(s) == SubSeq(s, SkipWs(s, 1), SkipWsBack(s, Len(s)))

StartsWithAt(s, i, pat) ==
    /\ i + Len(pat) - 1 <= Len(s)
    /\ \A k \in 1..Len(pat) : s[i + k - 1] = pat[k]

(* replace(/pat/g, empty) for a literal pattern: non-overlapping, left to right *)
RECURSIVE RemoveAllFrom(_, _, _)
RemoveAllFrom(s, i, pat) ==
    IF \E m \in i..Len(s) : StartsWithAt(s, m, pat)
    THEN LET m == CHOOSE m \in i..Len(s) :
                      /\ StartsWithAt(s, m, pat)
                      /\ \A k \in i..(m - 1) : ~StartsWithAt(s, k, pat)
         IN SubSeq(s, i, m - 1) \o RemoveAllFrom(s, m + Len(pat), pat)
    ELSE SubSeq(s, i, Len(s))

RemoveAll(s, pat) == RemoveAllFrom(s, 1, pat)

(* indexOf / lastIndexOf, 1-based, 0 when the character does not occur (JS: -1) *)
IndexOf(s, c) ==
    IF \E i \in 1..Len(s) : s[i] = c
    THEN CHOOSE i \in 1..Len(s) : s[i] = c /\ \A j \in 1..(i - 1) : s[j] # c
    ELSE 0

LastIndexOf(s, c) ==
    IF \E i \in 1..Len(s) : s[i] = c
    THEN CHOOSE i \in 1..Len(s) : s[i] = c /\ \A j \in (i + 1)..Len(s) : s[j] # c
    ELSE 0

(***************************************************************************)
(* JSON.parse: the JSON grammar (objects, arrays, strings, numbers, the    *)
(* three literals), without string escapes and number exponents: the       *)
(* alphabets below hold no backslash and no "e".                           *)
(***************************************************************************)
ParseFail == [ok |-> FALSE]
ParseOk(v, i) == [ok |-> TRUE, v |-> v, i |-> i]

(* the run of digits that starts at i: the index after its last digit *)
DigitsEnd(s, i) ==
    IF \E j \in i..Len(s) : s[j] \notin Digits
    THEN CHOOSE j \in i..Len(s) :
             s[j] \notin Digits /\ \A k \in i..(j - 1) : s[k] \in Digits
    ELSE IF i > Len(s) THEN i ELSE Len(s) + 1

(* value of the digits s[i..j-1] as an integer *)
RECURSIVE IntOf(_, _, _)
IntOf(s, i, j) ==
    IF j <= i THEN 0 ELSE IntOf(s, i, j - 1) * 10 + DigitVal[s[j - 1]]

(* value of the digits s[i..j-1] as a fraction, in units of 1/Scale (4 places) *)
FracOf(s, i, j) ==
    LET d(k) == IF i + k < j THEN DigitVal[s[i + k]] ELSE 0
    IN d(0) * 1000 + d(1) * 100 + d(2) * 10 + d(3)

(* number: optional minus, integer part without a leading zero, optional fraction *)
ParseNumber(s, i) ==
    LET neg == i <= Len(s) /\ s[i] = "-"
        a == IF neg THEN i + 1 ELSE i
        b == DigitsEnd(s, a)
        hasFrac == b <= Len(s) /\ s[b] = "."
        c == IF hasFrac THEN DigitsEnd(s, b + 1) ELSE b
        mag == IntOf(s, a, b) * Scale + (IF hasFrac THEN FracOf(s, b + 1, c) ELSE 0)
    IN IF b = a THEN ParseFail
       ELSE IF b - a > 1 /\ s[a] = "0" THEN ParseFail
       ELSE IF hasFrac /\ c = b + 1 THEN ParseFail
       ELSE ParseOk(Num(IF neg THEN 0 - mag ELSE mag), c)

(* string: characters between two quotes; a raw line break inside is a syntax error *)
ParseString(s, i) ==
    IF \E j \in (i + 1)..Len(s) : s[j] = "\""
    THEN LET j == CHOOSE j \in (i + 1)..Len(s) :
                      s[j] = "\"" /\ \A k \in (i + 1)..(j - 1) : s[k] # "\""
         IN IF \E k \in (i + 1)..(j - 1) : s[k] = "\n"
            THEN ParseFail
            ELSE ParseOk(Str(SubSeq(s, i + 1, j - 1)), j + 1)
    ELSE ParseFail

(* obj[key] = v: a repeated key keeps the last value *)
Put(f, key, v) ==
    [k \in (DOMAIN f) \cup {key} |-> IF k = key THEN v ELSE f[k]]

RECURSIVE ParseValue(_, _)
RECURSIVE ParseElems(_, _, _)
RECURSIVE ParseMembers(_, _, _)

ParseValue(s, i0) ==
    LET open(i, j) ==
            IF s[i] = "{"
            THEN IF j <= Len(s) /\ s[j] = "}" THEN ParseOk(EmptyObj, j + 1)
                 ELSE ParseMembers(s, j, <<>>)
            ELSE IF j <= Len(s) /\ s[j] = "]" THEN ParseOk(Arr(<<>>), j + 1)
                 ELSE ParseElems(s, j, <<>>)
        value(i) ==
            IF i > Len(s) THEN ParseFail
            ELSE IF s[i] \in {"{", "["} THEN open(i, SkipWs(s, i + 1))
            ELSE IF s[i] = "\"" THEN ParseString(s, i)
            ELSE IF s[i] \in Digits \cup {"-"} THEN ParseNumber(s, i)
            ELSE IF StartsWithAt(s, i, <<"t", "r", "u", "e">>)
                 THEN ParseOk(Bool(TRUE), i + 4)
            ELSE IF StartsWithAt(s, i, <<"f", "a", "l", "s", "e">>)
                 THEN ParseOk(Bool(FALSE), i + 5)
            ELSE IF StartsWithAt(s, i, <<"n", "u", "l", "l">>) THEN ParseOk(Null, i + 4)
            ELSE ParseFail
    IN value(SkipWs(s, i0))

ParseElems(s, i, acc) ==
    LET next(r) ==
            IF ~r.ok THEN ParseFail
            ELSE LET sep(j) ==
                         IF j > Len(s) THEN ParseFail
                         ELSE IF s[j] = "," THEN ParseElems(s, j + 1, Append(acc, r.v))
                         ELSE IF s[j] = "]" THEN ParseOk(Arr(Append(acc, r.v)), j + 1)
                         ELSE ParseFail
                 IN sep(SkipWs(s, r.i))
    IN next(ParseValue(s, i))

ParseMembers(s, i0, f) ==
    LET value(k, r) ==
            IF ~r.ok THEN ParseFail
            ELSE LET sep(j, g) ==
                         IF j > Len(s) THEN ParseFail
                         ELSE IF s[j] = "," THEN ParseMembers(s, j + 1, g)
                         ELSE IF s[j] = "}" THEN ParseOk(Obj(g), j + 1)
                         ELSE ParseFail
                 IN sep(SkipWs(s, r.i), Put(f, k.v.s, r.v))
        colon(k, c) ==
            IF c > Len(s) \/ s[c] # ":" THEN ParseFail
            ELSE value(k, ParseValue(s, c + 1))
        key(k) == IF ~k.ok THEN ParseFail ELSE colon(k, SkipWs(s, k.i))
        member(i) ==
            IF i > Len(s) \/ s[i] # "\"" THEN ParseFail ELSE key(ParseString(s, i))
    IN member(SkipWs(s, i0))

(* JSON.parse(s): the value, or the SyntaxError it throws *)
JsonParse(s) ==
    LET whole(r) == IF r.ok /\ SkipWs(s, r.i) > Len(s) THEN r.v ELSE SyntaxError
    IN whole(ParseValue(s, 1))

(***************************************************************************)
(* Numbers of the JavaScript runtime.  A number is an integer count of     *)
(* 1/Scale; parseFloat and Number are computed on the characters.          *)
(***************************************************************************)
IsNumberType(v) == v.t \in {"num", "nan"}

(* parseFloat(s): the longest numeric prefix (sign, digits, fraction), NaN
   if there is none *)
ParseFloat(s) ==
    LET neg == Len(s) >= 1 /\ s[1] = "-"
        a == IF neg THEN 2 ELSE 1
        b == DigitsEnd(s, a)
        hasDot == b <= Len(s) /\ s[b] = "."
        c == IF hasDot THEN DigitsEnd(s, b + 1) ELSE b
        mag == IntOf(s, a, b) * Scale + (IF hasDot THEN FracOf(s, b + 1, c) ELSE 0)
    IN IF b = a /\ (~hasDot \/ c = b + 1) THEN NaN
       ELSE Num(IF neg THEN 0 - mag ELSE mag)

(* Number(s) for a string: the whole trimmed string must be a decimal
   literal; the empty string is 0 *)
StringToNumber(s0) ==
    LET s == Trim(s0)
        neg == Len(s) >= 1 /\ s[1] = "-"
        a == IF neg THEN 2 ELSE 1
        b == DigitsEnd(s, a)
        hasDot == b <= Len(s) /\ s[b] = "."
        c == IF hasDot THEN DigitsEnd(s, b + 1) ELSE b
        mag == IntOf(s, a, b) * Scale + (IF hasDot THEN FracOf(s, b + 1, c) ELSE 0)
    IN IF s = <<>> THEN Num(0)
       ELSE IF c <= Len(s) THEN NaN
       ELSE IF b = a /\ (~hasDot \/ c = b + 1) THEN NaN
       ELSE Num(IF neg THEN 0 - mag ELSE mag)

(* Number(v) *)
RECURSIVE JsNumber(_)
JsNumber(v) ==
    CASE v.t = "num" -> v
      [] v.t = "nan" -> NaN
      [] v.t = "undef" -> NaN
      [] v.t = "null" -> Num(0)
      [] v.t = "bool" -> IF v.b THEN Num(Scale) ELSE Num(0)
      [] v.t = "str" -> StringToNumber(v.s)
      [] v.t = "arr" ->
            IF Len(v.a) = 0 THEN Num(0)
            ELSE IF Len(v.a) > 1 THEN NaN
            ELSE IF v.a[1].t \in {"null", "undef"} THEN Num(0)
            ELSE IF v.a[1].t = "bool" THEN NaN
            ELSE JsNumber(v.a[1])
      [] OTHER -> NaN

(* a || b *)
OrElse(a, b) == IF Truthy(a) THEN a ELSE b

(* x * (pct / 100) for a number x *)
Times(x, pct) == IF x.t = "num" THEN Num((x.n * pct) \div 100) ELSE NaN

(* comparisons of JavaScript numbers: every comparison with NaN is false *)
Greater(x, y) == x.t = "num" /\ y.t = "num" /\ x.n > y.n
Less(x, y) == x.t = "num" /\ y.t = "num" /\ x.n < y.n
GreaterEq(x, y) == x.t = "num" /\ y.t = "num" /\ x.n >= y.n
LessEq(x, y) == x.t = "num" /\ y.t = "num" /\ x.n <= y.n

(* v[key] for a value that is neither null nor undefined *)
GetProp(v, key) ==
    IF v.t = "obj" /\ key \in DOMAIN v.f THEN v.f[key] ELSE Undefined

(* v?.[key] *)
GetPropOpt(v, key) ==
    IF v.t \in {"null", "undef"} THEN Undefined ELSE GetProp(v, key)

(* s.replace(/[^\d.-]/g, '') *)
KeepNumeric(s) == SelectSeq(s, LAMBDA ch : ch \in Digits \cup {".", "-"})

(* s.replace(/,/g, '') *)
DropCommas(s) == SelectSeq(s, LAMBDA ch : ch # ",")

(* cleanNumber of revision D *)
cleanNumber(val) ==
    IF IsNumberType(val) THEN val
    ELSE IF val.t = "str"
         THEN LET num == ParseFloat(KeepNumeric(val.s))
              IN IF num.t = "nan" THEN Num(0) ELSE num
    ELSE Num(0)

(***************************************************************************)
(* extractJson                                                             *)
(***************************************************************************)
(* the backquote character; the TLA+ parser does not accept one inside a string, so
   the caret stands for it in every text of this module *)
Backquote == "^"
Fence == <<Backquote, Backquote, Backquote>>
FenceJson == Fence \o <<"j", "s", "o", "n">>

(* the fence markers removed (the tagged one first), then trim() *)
StripFences(s) == Trim(RemoveAll(RemoveAll(s, FenceJson), Fence))

(* the same JSON.parse with no try/catch around it: the SyntaxError escapes *)
TryParseSpanThrows(s, a, b) == JsonParse(SubSeq(s, a, b))

(* JSON.parse(s.substring(a, b + 1)) inside try/catch: a caught SyntaxError
   is logged and control falls through to the final return null *)
TryParseSpan(s, a, b) ==
    LET caught(r) == IF IsError(r) THEN Null ELSE r
    IN caught(JsonParse(SubSeq(s, a, b)))

(* the regex fallback (brace to brace, or bracket to bracket, greedy): the
   leftmost opener that has its closer somewhere after it, up to the last
   such closer; <<0, 0>> for no match *)
RegexJsonMatch(s) ==
    LET ok(p) == \/ s[p] = "{" /\ LastIndexOf(s, "}") > p
                 \/ s[p] = "[" /\ LastIndexOf(s, "]") > p
    IN IF \E p \in 1..Len(s) : ok(p)
       THEN LET p == CHOOSE p \in 1..Len(s) : ok(p) /\ \A q \in 1..(p - 1) : ~ok(q)
            IN <<p, LastIndexOf(s, IF s[p] = "{" THEN "}" ELSE "]")>>
       ELSE <<0, 0>>

(* the manual boundary check of revisions A and C: the opener that comes
   first chooses the closer *)
ManualBoundary(s) ==
    LET firstBrace == IndexOf(s, "{")
        firstBracket == IndexOf(s, "[")
        useBrace == firstBrace # 0 /\ (firstBracket = 0 \/ firstBrace < firstBracket)
        start == IF useBrace THEN firstBrace ELSE firstBracket
        endChar == IF useBrace THEN "}" ELSE "]"
        end == LastIndexOf(s, endChar)
    IN IF start # 0 /\ end > start THEN TryParseSpan(s, start, end) ELSE Null

(* the fallback of revisions D and E: first brace to last brace only *)
BraceBoundary(s) ==
    LET start == IndexOf(s, "{")
        end == LastIndexOf(s, "}")
    IN IF start # 0 /\ end # 0 /\ end > start THEN TryParseSpan(s, start, end) ELSE Null

(* revision A: direct parse, regex fallback, manual boundary check *)
extractJsonA(txt) ==
    IF ~Truthy(txt) THEN Null
    ELSE LET manual(cleaned, viaRegex) ==
                 IF viaRegex # Null THEN viaRegex ELSE ManualBoundary(cleaned)
             regex(cleaned, m) ==
                 manual(cleaned,
                        IF m[1] # 0 THEN TryParseSpan(cleaned, m[1], m[2]) ELSE Null)
             fallback(cleaned, direct) ==
                 IF ~IsError(direct) THEN direct
                 ELSE regex(cleaned, RegexJsonMatch(cleaned))
             parse(cleaned) == fallback(cleaned, JsonParse(cleaned))
         IN parse(StripFences(txt.s))

(* revision C: direct parse, manual boundary check *)
extractJsonC(txt) ==
    IF ~Truthy(txt) THEN Null
    ELSE LET fallback(cleaned, direct) ==
                 IF ~IsError(direct) THEN direct ELSE ManualBoundary(cleaned)
             parse(cleaned) == fallback(cleaned, JsonParse(cleaned))
         IN parse(StripFences(txt.s))

(* revisions D and E: direct parse, first brace to last brace *)
extractJsonDE(txt) ==
    IF ~Truthy(txt) THEN Null
    ELSE LET fallback(cleaned, direct) ==
                 IF ~IsError(direct) THEN direct ELSE BraceBoundary(cleaned)
             parse(cleaned) == fallback(cleaned, JsonParse(cleaned))
         IN parse(StripFences(txt.s))

(* revision B has no extractJson: getStockQuote parses the text itself *)
ExtractRevs == {"A", "C", "D", "E"}

extractJson(r, txt) ==
    CASE r = "A" -> extractJsonA(txt)
      [] r = "C" -> extractJsonC(txt)
      [] OTHER -> extractJsonDE(txt)

(***************************************************************************)
(* The arguments extractJson is applied to                                 *)
(***************************************************************************)
MaxTextLen == 4

ExtractAlphabet == {"{", "}", "[", "]", "1", "x"}

RECURSIVE StringsUpTo(_, _)
StringsUpTo(alphabet, n) ==
    IF n = 0 THEN {<<>>}
    ELSE LET shorter == StringsUpTo(alphabet, n - 1)
         IN shorter \cup {Append(s, c) : s \in shorter, c \in alphabet}

(* JSON documents embedded in a model response *)
Payloads ==
    { <<"{", "\"", "c", "\"", ":", "1", "}">>,
      <<"{", "\"", "c", "\"", ":", "1", ",", "\"", "b", "\"", ":", "2", "}">>,
      <<"{", "\"", "c", "\"", ":", "[", "1", "]", "}">>,
      <<"{", "}">>,
      <<"[", "1", "]">>,
      <<"[", "1", ",", "2", "]">>,
      <<"[", "{", "\"", "c", "\"", ":", "1", "}", "]">>,
      <<"[", "]">> }

Prefixes ==
    { <<>>,
      <<"o", "k", ":", " ">>,
      FenceJson \o <<"\n">>,
      <<"o", "k", ":", "\n">> \o FenceJson \o <<"\n">>,
      Fence \o <<"\n">> }

Suffixes ==
    { <<>>,
      <<" ", "o", "k">>,
      <<"\n">> \o Fence,
      <<"\n">> \o Fence \o <<"\n", "o", "k">> }

NoResponse == [st |-> "none"]

ServiceIdle ==
    /\ apiKey = "set"
    /\ pc = "idle"
    /\ fn = "none"
    /\ symbol = <<>>
    /\ buyPrice = Num(0)
    /\ requests = 0
    /\ resp1 = NoResponse
    /\ resp2 = NoResponse
    /\ result = [t |-> "none"]
    /\ sources = <<>>

(* the components of the user interface before anything is typed, and an
   empty localStorage *)
FormIdle ==
    /\ form = [symbol |-> <<>>, buyPrice |-> <<>>, quantity |-> <<>>,
               strategy |-> "intraday", proSuggestions |-> <<>>, userEmail |-> ""]
    /\ submitted = [t |-> "none"]

StoreIdle ==
    /\ store = [logs |-> <<>>, profiles |-> <<>>, suggestions |-> <<>>]
    /\ clock = 0

NoAnalysis == [loading |-> FALSE, error |-> Null, result |-> Null]

AppIdle ==
    /\ app = [viewMode |-> "USER_LOGIN", userEmail |-> "", userLocation |-> Null,
              stockData |-> Null, analysis |-> NoAnalysis]
    /\ calls = <<>>

LoginMounted(version) ==
    [version |-> version, view |-> "LOGIN", email |-> "", captchaInput |-> "",
     otpInput |-> "", generatedOtp |-> "", isLoading |-> FALSE, error |-> "",
     mockEmails |-> <<>>, timers |-> <<>>, onLoginSuccess |-> <<>>]

UiIdle ==
    /\ FormIdle
    /\ StoreIdle
    /\ AppIdle
    /\ login = LoginMounted(1)

InitExtract ==
    /\ ServiceIdle
    /\ UiIdle
    /\ rev \in ExtractRevs
    /\ jsonOut = [t |-> "pending"]
    /\ \/ /\ payload = <<>>
          /\ text \in {Str(s) : s \in StringsUpTo(ExtractAlphabet, MaxTextLen)}
                      \cup {Undefined}
       \/ /\ payload \in Payloads
          /\ \E pre \in Prefixes, post \in Suffixes :
                 text = Str(pre \o payload \o post)

ExtractJsonCall ==
    /\ jsonOut.t = "pending"
    /\ jsonOut' = extractJson(rev, text)
    /\ UNCHANGED <<rev, text, payload>>
    /\ UNCHANGED <<serviceVars, uiVars>>

NextExtract == ExtractJsonCall

SpecExtract == InitExtract /\ [][NextExtract]_vars

(***************************************************************************)
(* Properties of extractJson (checked under SpecExtract)                   *)
(***************************************************************************)
Returned == jsonOut.t # "pending"

Cleaned == StripFences(text.s)

(* the span from the first opener of a kind to the last closer of that kind *)
SpanValue(s, open, close) ==
    IF IndexOf(s, open) # 0 /\ LastIndexOf(s, close) > IndexOf(s, open)
    THEN JsonParse(SubSeq(s, IndexOf(s, open), LastIndexOf(s, close)))
    ELSE SyntaxError

(* C4: extractJson is total and never throws: for every argument (the empty
   string and undefined included) it returns a parsed JSON value or null,
   and it returns null whenever neither the cleaned text nor a span bounded
   by the first opener and the last closer of a kind parses. *)
ExtractJsonTotal ==
    Returned =>
        /\ ~IsError(jsonOut)
        /\ ~Truthy(text) => jsonOut = Null
        /\ (Truthy(text) /\ jsonOut # Null) =>
               jsonOut \in {JsonParse(Cleaned), SpanValue(Cleaned, "{", "}"),
                            SpanValue(Cleaned, "[", "]")}

(* the fallback ran on a text that holds a brace, found nothing to parse and
   null came back *)
ExtractJsonTotalWitness ==
    /\ Returned
    /\ Truthy(text)
    /\ IndexOf(Cleaned, "{") # 0
    /\ IsError(JsonParse(Cleaned))
    /\ jsonOut = Null

CountOf(s, cs) == Cardinality({i \in 1..Len(s) : s[i] \in cs})

KindOf(doc) == IF doc[1] = "{" THEN {"{", "}"} ELSE {"[", "]"}

(* C5: round trip: for a valid JSON object or array J inside leading and
   trailing prose and optional code fences, J being the only bracketed
   structure of its kind in the text, extractJson returns a value equal to
   JSON.parse(J), for arrays as well as for objects. *)
ExtractJsonRoundTrip ==
    (/\ Returned
     /\ payload # <<>>
     /\ CountOf(text.s, KindOf(payload)) = CountOf(payload, KindOf(payload)))
        => jsonOut = JsonParse(payload)

(* C6: in the fallback, when the cleaned text holds both a brace and a
   bracket, the opener that comes first decides the kind: only the span from
   it to the last closer of its kind is tried, and a value of the other kind
   is never returned. *)
FirstOpenerDecides ==
    (/\ Returned
     /\ Truthy(text)
     /\ IsError(JsonParse(Cleaned))
     /\ IndexOf(Cleaned, "{") # 0
     /\ IndexOf(Cleaned, "[") # 0)
        => IF IndexOf(Cleaned, "{") < IndexOf(Cleaned, "[")
           THEN /\ jsonOut.t \in {"obj", "null"}
                /\ jsonOut \in {Null, SpanValue(Cleaned, "{", "}")}
           ELSE /\ jsonOut.t \in {"arr", "null"}
                /\ jsonOut \in {Null, SpanValue(Cleaned, "[", "]")}

(***************************************************************************)
(* Errors.  The catch handlers look into error.message with includes():    *)
(* MessageIncludes computes it from the message each kind of error is      *)
(* constructed with.                                                       *)
(***************************************************************************)
Pat429 ==
    <<"4", "2", "9">>

PatResourceExhausted ==
    <<"R", "E", "S", "O", "U", "R", "C", "E", "_", "E", "X", "H", "A", "U",
      "S", "T", "E", "D">>

PatConfigurationRequired ==
    <<"C", "o", "n", "f", "i", "g", "u", "r", "a", "t", "i", "o", "n", " ",
      "R", "e", "q", "u", "i", "r", "e", "d">>

Includes(s, pat) == \E i \in 1..Len(s) : StartsWithAt(s, i, pat)

(* "Configuration Required: Google Gemini API Key is missing. ..." (D, E) *)
ConfigurationRequired == [t |-> "error", kind |-> "ConfigurationRequired"]
(* "API Key is missing. Ensure API_KEY is set ..." (C) *)
ApiKeyMissing == [t |-> "error", kind |-> "ApiKeyMissing"]
(* what the SDK constructor throws when it refuses to build a client (A, B) *)
SdkError == [t |-> "error", kind |-> "SdkError"]
(* "Price for <symbol> not found. Please ensure the ticker is correct ..." (D) *)
PriceNotFound(sym) == [t |-> "error", kind |-> "PriceNotFound", symbol |-> sym]
(* "Invalid data format received from AI." (E) *)
InvalidFormat == [t |-> "error", kind |-> "InvalidFormat"]
(* "API Quota Exhausted: You have reached the Gemini API limit. ..." (D) *)
QuotaExhausted == [t |-> "error", kind |-> "QuotaExhausted"]
(* "Quota Full: Gemini Pro has reached its hourly limit. ..." (D) *)
QuotaFull == [t |-> "error", kind |-> "QuotaFull"]
(* the generic error of analyzeStockPosition *)
AnalysisInterrupted == [t |-> "error", kind |-> "AnalysisInterrupted"]
(* a property read from null or from undefined *)
TypeError == [t |-> "error", kind |-> "TypeError"]
(* a rejected generateContent; marks: the substrings among "429" and
   "RESOURCE_EXHAUSTED" that the provider's message holds *)
ProviderError(marks) == [t |-> "error", kind |-> "Provider", marks |-> marks]

(* a rejection whose value carries no message property: the rejected value
   is typed any and the handlers read error.message with and without ?. *)
ProviderErrors ==
    {ProviderError(m) : m \in SUBSET {Pat429, PatResourceExhausted}}
    \cup {[t |-> "error", kind |-> "NoMessage"]}

(* error.message is a string, so that error.message.includes can be called *)
HasMessage(err) == err.kind # "NoMessage"

MessageIncludes(err, pat) ==
    CASE err.kind = "Provider" -> pat \in err.marks
      [] err.kind = "PriceNotFound" -> Includes(err.symbol, pat)
      [] err.kind = "ConfigurationRequired" -> pat = PatConfigurationRequired
      [] OTHER -> FALSE

(***************************************************************************)
(* getAIClient and the construction of the SDK client                      *)
(***************************************************************************)
KeyMissing == apiKey \in {"absent", "empty"}

(* revisions C, D, E: the error getAIClient throws, or "ok" *)
getAIClient(r, key) ==
    IF key \in {"absent", "empty"}
    THEN IF r = "C" THEN ApiKeyMissing ELSE ConfigurationRequired
    ELSE [t |-> "ok"]

ChecksKey(r) == r \in {"C", "D", "E"}

(***************************************************************************)
(* getStockQuote                                                           *)
(***************************************************************************)
KeyCurrentPrice ==
    <<"c", "u", "r", "r", "e", "n", "t", "P", "r", "i", "c", "e">>

KeySuggestedBuy ==
    <<"s", "u", "g", "g", "e", "s", "t", "e", "d", "B", "u", "y">>

KeySuggestedSell ==
    <<"s", "u", "g", "g", "e", "s", "t", "e", "d", "S", "e", "l", "l">>

Quote(c, b, s) ==
    [t |-> "quote", currentPrice |-> c, suggestedBuy |-> b, suggestedSell |-> s]

ZeroQuote == Quote(Num(0), Num(0), Num(0))

(* typeof v === 'number' ? v : 0 *)
NumberOrZero(v) == IF IsNumberType(v) THEN v ELSE Num(0)

TextOr(txt, dflt) == IF Truthy(txt) THEN txt ELSE Str(dflt)

(* revision B: the fence markers at the two ends of the text only *)
StripLeading(s, pat) ==
    IF StartsWithAt(s, 1, pat) THEN SubSeq(s, SkipWs(s, Len(pat) + 1), Len(s)) ELSE s

StripTrailingFence(s) ==
    IF Len(s) >= 3 /\ StartsWithAt(s, Len(s) - 2, Fence)
    THEN SubSeq(s, 1, SkipWsBack(s, Len(s) - 3))
    ELSE s

StripEnds(s) == Trim(StripTrailingFence(StripLeading(StripLeading(s, FenceJson), Fence)))

(* the heuristic of revision D: the first match of
   digit{1,5} (comma digit{3})* (dot digit+)? in the raw text, <<>> if none *)
RECURSIVE GroupsEnd(_, _)
GroupsEnd(s, i) ==
    IF /\ i + 3 <= Len(s)
       /\ s[i] = ","
       /\ \A k \in 1..3 : s[i + k] \in Digits
    THEN GroupsEnd(s, i + 4)
    ELSE i

(* the index after the match that starts at the digit at p *)
NumberTokenEnd(s, p) ==
    LET d == DigitsEnd(s, p)
        a == IF d > p + 5 THEN p + 5 ELSE d
        b == GroupsEnd(s, a)
    IN IF b + 1 <= Len(s) /\ s[b] = "." /\ s[b + 1] \in Digits
       THEN DigitsEnd(s, b + 1) ELSE b

(* the first digit at or after i, 0 if none *)
FirstDigitFrom(s, i) ==
    IF \E j \in i..Len(s) : s[j] \in Digits
    THEN CHOOSE j \in i..Len(s) : s[j] \in Digits /\ \A k \in i..(j - 1) : s[k] \notin Digits
    ELSE 0

(* numbers[0] *)
FirstNumberToken(s) ==
    LET p == FirstDigitFrom(s, 1)
    IN IF p = 0 THEN <<>> ELSE SubSeq(s, p, NumberTokenEnd(s, p) - 1)

(* the body of the try block after the response arrived: the quote returned
   or the error thrown inside the try *)
quoteTryA(sym, txt) ==
    LET quote(rawData) ==
            Quote(NumberOrZero(GetProp(rawData, KeyCurrentPrice)),
                  NumberOrZero(GetProp(rawData, KeySuggestedBuy)),
                  NumberOrZero(GetProp(rawData, KeySuggestedSell)))
    IN quote(OrElse(extractJsonA(TextOr(txt, <<"{", "}">>)), EmptyObj))

quoteTryB(sym, txt) ==
    LET quote(rawData) ==
            IF IsError(rawData) THEN rawData
            ELSE IF rawData = Null THEN TypeError
            ELSE Quote(NumberOrZero(GetProp(rawData, KeyCurrentPrice)),
                       NumberOrZero(GetProp(rawData, KeySuggestedBuy)),
                       NumberOrZero(GetProp(rawData, KeySuggestedSell)))
    IN quote(JsonParse(StripEnds(TextOr(txt, <<"{", "}">>).s)))

quoteTryC(sym, txt) ==
    LET quote(rawData) ==
            Quote(OrElse(JsNumber(GetProp(rawData, KeyCurrentPrice)), Num(0)),
                  OrElse(JsNumber(GetProp(rawData, KeySuggestedBuy)), Num(0)),
                  OrElse(JsNumber(GetProp(rawData, KeySuggestedSell)), Num(0)))
    IN quote(OrElse(extractJsonC(TextOr(txt, <<"{", "}">>)), EmptyObj))

quoteTryD(sym, txt) ==
    LET quote(rawData, currentPrice) ==
            IF LessEq(currentPrice, Num(0)) THEN PriceNotFound(sym)
            ELSE Quote(currentPrice,
                       OrElse(cleanNumber(GetPropOpt(rawData, KeySuggestedBuy)),
                              Times(currentPrice, 95)),
                       OrElse(cleanNumber(GetPropOpt(rawData, KeySuggestedSell)),
                              Times(currentPrice, 110)))
        checked(rawData) ==
            quote(rawData, cleanNumber(GetPropOpt(rawData, KeyCurrentPrice)))
        heuristic(extracted, numbers0, price) ==
            checked(IF /\ \/ ~Truthy(extracted)
                          \/ ~Truthy(cleanNumber(GetProp(extracted, KeyCurrentPrice)))
                       /\ numbers0 # <<>>
                       /\ Greater(price, Num(Scale))
                    THEN Obj((KeyCurrentPrice :> price)
                             @@ (KeySuggestedBuy :> Times(price, 96))
                             @@ (KeySuggestedSell :> Times(price, 108)))
                    ELSE extracted)
        numbers(responseText, numbers0) ==
            heuristic(extractJsonDE(responseText), numbers0, cleanNumber(Str(numbers0)))
        body(responseText) == numbers(responseText, FirstNumberToken(responseText.s))
    IN body(TextOr(txt, <<>>))

quoteTryE(sym, txt) ==
    LET quote(rawData, currentPrice) ==
            Quote(currentPrice,
                  OrElse(GetProp(rawData, KeySuggestedBuy), Times(currentPrice, 95)),
                  OrElse(GetProp(rawData, KeySuggestedSell), Times(currentPrice, 110)))
        checked(rawData) ==
            IF ~Truthy(rawData) \/ ~IsNumberType(GetProp(rawData, KeyCurrentPrice))
            THEN InvalidFormat
            ELSE quote(rawData, GetProp(rawData, KeyCurrentPrice))
    IN checked(extractJsonDE(TextOr(txt, <<>>)))

quoteTry(r, sym, txt) ==
    CASE r = "A" -> quoteTryA(sym, txt)
      [] r = "B" -> quoteTryB(sym, txt)
      [] r = "C" -> quoteTryC(sym, txt)
      [] r = "D" -> quoteTryD(sym, txt)
      [] OTHER -> quoteTryE(sym, txt)

(* the catch block of getStockQuote: what the caller gets for an error
   thrown inside the try *)
quoteCatch(r, err) ==
    CASE r \in {"A", "B", "C"} -> ZeroQuote
      [] r = "D" ->
            IF MessageIncludes(err, Pat429) \/ MessageIncludes(err, PatResourceExhausted)
            THEN QuotaExhausted
            ELSE IF ~HasMessage(err) THEN TypeError
            ELSE err
      [] OTHER ->
            IF ~HasMessage(err) THEN TypeError
            ELSE IF MessageIncludes(err, PatConfigurationRequired) THEN err
            ELSE ZeroQuote

(* the loop over groundingChunks: a chunk is kept when chunk.web?.uri and
   chunk.web?.title are both truthy *)
sourcesOf(chunks) ==
    LET cited(chunk) ==
            /\ Truthy(chunk.web)
            /\ Truthy(chunk.web.uri)
            /\ Truthy(chunk.web.title)
        kept(a) == SelectSeq(a, cited)
        push(a) == [k \in 1..Len(a) |-> [title |-> a[k].web.title, uri |-> a[k].web.uri]]
    IN IF Truthy(chunks) THEN push(kept(chunks.a)) ELSE <<>>

(* what getStockQuote hands to its caller once the request has settled: the
   value returned or thrown, and the sources of a quote returned *)
quoteSettled(r, sym, resp) ==
    LET settle(out) ==
            IF IsError(out)
            THEN [value |-> quoteCatch(r, out), sources |-> <<>>]
            ELSE [value |-> out, sources |-> sourcesOf(resp.chunks)]
    IN settle(IF resp.st = "fail" THEN resp.error ELSE quoteTry(r, sym, resp.text))

(***************************************************************************)
(* What the provider can answer to the quote request                       *)
(***************************************************************************)
(* the literal a field of the quote object is written with; <<>>: the field
   is left out *)
FieldLiterals == {<<>>, <<"4", "5", "2", ".", "3", "0">>, <<"0">>, <<"-", "5">>,
    <<"\"", "₹", "1", ",", "2", "3", "4", ".", "5", "0", "\"">>, <<"\"", "N", "/",
    "A", "\"">>}

Member(key, lit) ==
    IF lit = <<>> THEN <<>> ELSE <<<<"\"">> \o key \o <<"\"", ":">> \o lit>>

RECURSIVE JoinWith(_, _)
JoinWith(parts, sep) ==
    IF parts = <<>> THEN <<>>
    ELSE IF Len(parts) = 1 THEN parts[1]
    ELSE parts[1] \o sep \o JoinWith(Tail(parts), sep)

ObjectText(c, b, s) ==
    <<"{">> \o JoinWith(Member(KeyCurrentPrice, c) \o Member(KeySuggestedBuy, b)
                        \o Member(KeySuggestedSell, s), <<",">>) \o <<"}">>

QuoteObjects == {ObjectText(c, b, s) : c \in FieldLiterals, b \in FieldLiterals,
                                       s \in FieldLiterals}

QuoteTexts ==
    {Str(o) : o \in QuoteObjects}
    \cup {Str(<<"o", "k", ":", " ">> \o o \o <<" ", "o", "k">>) : o \in QuoteObjects}
    \cup {Str(FenceJson \o <<"\n">> \o ObjectText(<<"4", "5", "2", ".", "3", "0">>,
        <<"4", "5", "2", ".", "3", "0">>, <<"4", "5", "2", ".", "3", "0">>)
              \o <<"\n">> \o Fence)}
    \cup {Str(t) : t \in {<<"p", "r", "i", "c", "e", " ", "i", "s", " ", "a", "r",
        "o", "u", "n", "d", " ", "4", "5", "2", ".", "3", "0", " ", "t", "o", "d",
        "a", "y">>, <<"n", "o", " ", "d", "a", "t", "a", " ", "a", "v", "a", "i",
        "l", "a", "b", "l", "e">>, <<"1", " ", "r", "e", "s", "u", "l", "t", ":",
        " ", "p", "r", "i", "c", "e", " ", "4", "5", "2", ".", "3", "0">>, <<"p",
        "r", "i", "c", "e", " ", "1", ",", "2", "3", "4", ".", "5", "0", " ", "n",
        "o", "w">>,
                          <<"n", "u", "l", "l">>, <<"[", "4", "5", "2", ".", "3",
                              "0", "]">>}}
    \cup {Undefined}

(* a response: response.text and
   response.candidates?.[0]?.groundingMetadata?.groundingChunks *)
GroundedResponse(txt, chunks) == [st |-> "ok", text |-> txt, chunks |-> chunks]
OkResponse(txt) == GroundedResponse(txt, Undefined)
Failure(err) == [st |-> "fail", error |-> err]

Failures == {Failure(e) : e \in ProviderErrors}

(* a request sent without a key is rejected by the provider *)
QuoteResponses ==
    IF KeyMissing THEN Failures ELSE Failures \cup {OkResponse(t) : t \in QuoteTexts}

Symbols == {<<"T", "C", "S">>, <<"5", "4", "2", "9", "0", "4">>}

(***************************************************************************)
(* analyzeStockPosition: the markers of the narrative text                 *)
(***************************************************************************)
LowerLetters ==
    <<"a", "b", "c", "d", "e", "f", "g", "h", "i", "j", "k", "l", "m", "n",
      "o", "p", "q", "r", "s", "t", "u", "v", "w", "x", "y", "z">>

UpperLetters ==
    <<"A", "B", "C", "D", "E", "F", "G", "H", "I", "J", "K", "L", "M", "N",
      "O", "P", "Q", "R", "S", "T", "U", "V", "W", "X", "Y", "Z">>

(* comparison under the regex flag i *)
Upper(ch) ==
    IF \E k \in 1..Len(LowerLetters) : LowerLetters[k] = ch
    THEN UpperLetters[CHOOSE k \in 1..Len(LowerLetters) : LowerLetters[k] = ch]
    ELSE ch

StartsWithAtCI(s, i, pat) ==
    /\ i + Len(pat) - 1 <= Len(s)
    /\ \A k \in 1..Len(pat) : Upper(s[i + k - 1]) = Upper(pat[k])

MarkerCurrentPrice ==
    <<"C", "U", "R", "R", "E", "N", "T", "_", "P", "R", "I", "C", "E", ":">>

MarkerRecommendation ==
    <<"F", "I", "N", "A", "L", "_", "R", "E", "C", "O", "M", "M", "E", "N",
      "D", "A", "T", "I", "O", "N", ":">>

Signals == {<<"S", "T", "R", "O", "N", "G", "_", "B", "U", "Y">>, <<"S", "T", "R",
    "O", "N", "G", "_", "S", "E", "L", "L">>, <<"N", "E", "U", "T", "R", "A", "L">>,
    <<"W", "A", "I", "T">>}

(* the end of the run of digits and commas that starts at i *)
NumCommaEnd(s, i) ==
    IF \E j \in i..Len(s) : s[j] \notin Digits \cup {","}
    THEN CHOOSE j \in i..Len(s) :
             /\ s[j] \notin Digits \cup {","}
             /\ \A k \in i..(j - 1) : s[k] \in Digits \cup {","}
    ELSE IF i > Len(s) THEN i ELSE Len(s) + 1

(* the end of a match of: digits and commas, an optional dot, digits *)
NumberCaptureEnd(s, i) ==
    LET e == NumCommaEnd(s, i)
    IN IF e <= Len(s) /\ s[e] = "." THEN DigitsEnd(s, e + 1) ELSE e

(* the index of the last character of the line that holds index i *)
LineEnd(s, i) ==
    IF \E j \in i..Len(s) : s[j] = "\n"
    THEN (CHOOSE j \in i..Len(s) : s[j] = "\n" /\ \A k \in i..(j - 1) : s[k] # "\n") - 1
    ELSE Len(s)

NoMatch == [found |-> FALSE]

(* the match of the CURRENT_PRICE regex: after the first marker the run of
   non-digits is greedy and crosses line breaks; it stops before the first
   digit or, when no digit follows, gives characters back until the last
   comma *)
priceMatch(s) ==
    IF \E m \in 1..Len(s) : StartsWithAtCI(s, m, MarkerCurrentPrice)
    THEN LET m == CHOOSE m \in 1..Len(s) :
                      /\ StartsWithAtCI(s, m, MarkerCurrentPrice)
                      /\ \A k \in 1..(m - 1) : ~StartsWithAtCI(s, k, MarkerCurrentPrice)
             a == m + Len(MarkerCurrentPrice)
             hasDigit == \E j \in a..Len(s) : s[j] \in Digits
             hasComma == \E j \in a..Len(s) : s[j] = ","
             q == IF hasDigit
                  THEN CHOOSE j \in a..Len(s) :
                           s[j] \in Digits /\ \A k \in a..(j - 1) : s[k] \notin Digits
                  ELSE CHOOSE j \in a..Len(s) :
                           s[j] = "," /\ \A k \in (j + 1)..Len(s) : s[k] # ","
         IN IF hasDigit \/ hasComma
            THEN [found |-> TRUE, cap |-> SubSeq(s, q, NumberCaptureEnd(s, q) - 1),
                  from |-> m]
            ELSE NoMatch
    ELSE NoMatch

(* the recommendation regex tried at a marker that starts at m *)
recMatchAt(s, m) ==
    LET a == SkipWs(s, m + Len(MarkerRecommendation))
    IN IF \E sig \in Signals : StartsWithAtCI(s, a, sig)
       THEN LET sig == CHOOSE sig \in Signals : StartsWithAtCI(s, a, sig)
                b == SkipWs(s, a + Len(sig))
                c == SkipWs(s, b + 1)
                e == NumberCaptureEnd(s, c)
                f == SkipWs(s, e)
                g == SkipWs(s, f + 1)
                h == IF g <= Len(s) THEN g
                     ELSE IF \E j \in (f + 1)..Len(s) : s[j] # "\n"
                          THEN CHOOSE j \in (f + 1)..Len(s) :
                                   s[j] # "\n" /\ \A k \in (j + 1)..Len(s) : s[k] = "\n"
                          ELSE 0
            IN IF /\ b <= Len(s) /\ s[b] = "|"
                  /\ c <= Len(s) /\ s[c] \in Digits \cup {","}
                  /\ f <= Len(s) /\ s[f] = "|"
                  /\ h # 0
               THEN [found |-> TRUE,
                     signal |-> SubSeq(s, a, a + Len(sig) - 1),
                     cap |-> SubSeq(s, c, e - 1),
                     reason |-> Trim(SubSeq(s, h, LineEnd(s, h))),
                     from |-> m, to |-> LineEnd(s, h)]
               ELSE NoMatch
       ELSE NoMatch

(* analysisText.match(recRegex): the leftmost marker at which it matches *)
recMatch(s) ==
    LET ok(m) == StartsWithAtCI(s, m, MarkerRecommendation) /\ recMatchAt(s, m).found
    IN IF \E m \in 1..Len(s) : ok(m)
       THEN recMatchAt(s, CHOOSE m \in 1..Len(s) : ok(m) /\ \A k \in 1..(m - 1) : ~ok(k))
       ELSE NoMatch

(* the number of a capture: parseFloat of the capture without commas in
   A, B, C, E; cleanNumber in D *)
captureNumber(r, cap) ==
    IF r = "D" THEN cleanNumber(Str(cap)) ELSE ParseFloat(DropCommas(cap))

currentPriceEstimateOf(r, s) ==
    LET estimate(m) == IF m.found THEN captureNumber(r, m.cap) ELSE Undefined
    IN estimate(priceMatch(s))

recommendationOf(r, s) ==
    LET rec(m) ==
            IF m.found
            THEN [t |-> "rec", signal |-> m.signal,
                  price |-> captureNumber(r, m.cap),
                  reason |-> m.reason]
            ELSE Undefined
    IN rec(recMatch(s))

(* the sentiment: A, B, C leave neutral unless the estimate is truthy;
   D and E compare (estimate || 0) with the buy price *)
sentimentOf(r, est, buy) ==
    IF r \in {"A", "B", "C"}
    THEN IF Truthy(est)
         THEN IF Greater(est, buy) THEN "bullish"
              ELSE IF Less(est, buy) THEN "bearish"
              ELSE "neutral"
         ELSE "neutral"
    ELSE IF GreaterEq(OrElse(est, Num(0)), buy) THEN "bullish" ELSE "bearish"

(* String.prototype.toLowerCase *)
toLowerCase(s) ==
    [k \in 1..Len(s) |->
        IF \E j \in 1..Len(UpperLetters) : UpperLetters[j] = s[k]
        THEN LowerLetters[CHOOSE j \in 1..Len(UpperLetters) : UpperLetters[j] = s[k]]
        ELSE s[k]]

MarkerNewsItem ==
    <<"N", "E", "W", "S", "_", "I", "T", "E", "M", ":">>

SentimentWords ==
    {<<"P", "o", "s", "i", "t", "i", "v", "e">>,
     <<"N", "e", "g", "a", "t", "i", "v", "e">>,
     <<"N", "e", "u", "t", "r", "a", "l">>}

(* the news regex tried at a marker that starts at m.  The white space after
   the marker and after the first bar is greedy and crosses line breaks; the
   headline and the summary are lazy and stay on one line; after each of
   them white space, line breaks included, may precede the bar; the
   sentiment word is compared under the flag i and need not end the line.
   The search order of the backtracking: the longest white space, then the
   shortest headline, then the longest white space, then the shortest
   summary. *)
newsMatchAt(s, m) ==
    LET a0 == m + Len(MarkerNewsItem)
        isPipe(p) == p <= Len(s) /\ s[p] = "|"
        sentAt(c) == \E w \in SentimentWords : StartsWithAtCI(s, c, w)
        sumOK(f) ==
            /\ isPipe(SkipWs(s, f + 1))
            /\ sentAt(SkipWs(s, SkipWs(s, f + 1) + 1))
        sumFrom(b) == \E f \in b..LineEnd(s, b) : sumOK(f)
        headOK(e) ==
            /\ isPipe(SkipWs(s, e + 1))
            /\ \E b \in (SkipWs(s, e + 1) + 1)..SkipWs(s, SkipWs(s, e + 1) + 1) :
                   sumFrom(b)
        startOK(a) == \E e \in a..LineEnd(s, a) : headOK(e)
        matched(a, e, b, f, c, w) ==
            [found |-> TRUE, from |-> m, to |-> c + Len(w) - 1,
             headline |-> Trim(SubSeq(s, a, e)),
             summary |-> Trim(SubSeq(s, b, f)),
             sentiment |-> toLowerCase(Trim(SubSeq(s, c, c + Len(w) - 1)))]
        withWord(a, e, b, f, c) ==
            matched(a, e, b, f, c,
                    CHOOSE w \in SentimentWords : StartsWithAtCI(s, c, w))
        withSummary(a, e, b, f) ==
            withWord(a, e, b, f, SkipWs(s, SkipWs(s, f + 1) + 1))
        withGap(a, e, b) ==
            withSummary(a, e, b,
                        CHOOSE f \in b..LineEnd(s, b) :
                            sumOK(f) /\ \A k \in b..(f - 1) : ~sumOK(k))
        withHeadline(a, e, hi) ==
            withGap(a, e, CHOOSE b \in (SkipWs(s, e + 1) + 1)..hi :
                              sumFrom(b) /\ \A k \in (b + 1)..hi : ~sumFrom(k))
        withEnd(a, e) == withHeadline(a, e, SkipWs(s, SkipWs(s, e + 1) + 1))
        withStart(a) ==
            withEnd(a, CHOOSE e \in a..LineEnd(s, a) :
                           headOK(e) /\ \A k \in a..(e - 1) : ~headOK(k))
    IN IF \E a \in a0..SkipWs(s, a0) : startOK(a)
       THEN withStart(CHOOSE a \in a0..SkipWs(s, a0) :
                          startOK(a) /\ \A k \in (a + 1)..SkipWs(s, a0) : ~startOK(k))
       ELSE NoMatch

(* the matches of the exec loop: each search starts where the last match
   ended *)
RECURSIVE newsMatches(_, _)
newsMatches(s, i) ==
    LET ok(m) == StartsWithAtCI(s, m, MarkerNewsItem) /\ newsMatchAt(s, m).found
        push(mt) == <<mt>> \o newsMatches(s, mt.to + 1)
    IN IF \E m \in i..Len(s) : ok(m)
       THEN push(newsMatchAt(s, CHOOSE m \in i..Len(s) :
                                   ok(m) /\ \A k \in i..(m - 1) : ~ok(k)))
       ELSE <<>>

NewsItem(headline, summary, sentiment) ==
    [headline |-> headline, summary |-> summary, sentiment |-> sentiment]

newsOf(s) ==
    LET items(ms) ==
            [k \in 1..Len(ms) |->
                NewsItem(ms[k].headline, ms[k].summary, ms[k].sentiment)]
    IN items(newsMatches(s, 1))

(* the text without the characters whose index is in gone, from index i on *)
RECURSIVE Without(_, _, _)
Without(s, gone, i) ==
    LET cut(m) ==
            SubSeq(s, i, m - 1)
            \o Without(s, gone, CHOOSE e \in (m + 1)..(Len(s) + 1) :
                                   e \notin gone /\ \A k \in m..(e - 1) : k \in gone)
    IN IF \E m \in i..Len(s) : m \in gone
       THEN cut(CHOOSE m \in i..Len(s) : m \in gone /\ \A k \in i..(m - 1) : k \notin gone)
       ELSE SubSeq(s, i, Len(s))

(* the clean-up of analysisText: every news match, the first recommendation
   match, every CURRENT_PRICE: marker with the rest of its line and the line
   break; revision B also every IMPORTANT: and every FINAL_RECOMMENDATION:
   marker with the rest of its line; then trim *)
cleanAnalysisText(r, s) ==
    LET lines(t, marker) ==
            UNION {m..(LineEnd(t, m) + 1) :
                       m \in {k \in 1..Len(t) : StartsWithAtCI(t, k, marker)}}
        dropLines(t, marker) == Without(t, lines(t, marker) \cap (1..Len(t)), 1)
        spanOf(m) == IF m.found THEN m.from..m.to ELSE {}
        spansOf(ms) == UNION {ms[k].from..ms[k].to : k \in 1..Len(ms)}
        noPrice(t) ==
            IF r = "B"
            THEN dropLines(dropLines(dropLines(t, MarkerCurrentPrice),
                                     <<"I", "M", "P", "O", "R", "T", "A", "N", "T", ":">>),
                           MarkerRecommendation)
            ELSE dropLines(t, MarkerCurrentPrice)
        noRec(t) == noPrice(Without(t, spanOf(recMatch(t)), 1))
    IN Trim(noRec(Without(s, spansOf(newsMatches(s, 1)), 1)))

(***************************************************************************)
(* analyzeStockPosition: the forecast series                               *)
(***************************************************************************)
KeyLabel ==
    <<"l", "a", "b", "e", "l">>

KeyPrice ==
    <<"p", "r", "i", "c", "e">>

ChartPoint(label, price) == [label |-> label, price |-> price, type |-> "forecast"]

(* rawChartData.map(...): a null item makes the property read throw *)
mapChart(r, items) ==
    IF \E k \in 1..Len(items) : items[k] = Null THEN TypeError
    ELSE Arr([k \in 1..Len(items) |->
                 ChartPoint(GetProp(items[k], KeyLabel),
                            IF r = "D" THEN cleanNumber(GetProp(items[k], KeyPrice))
                            ELSE GetProp(items[k], KeyPrice))])

(* the chart data, or the error thrown out of the enclosing try.  Revision
   B parses the text itself inside an inner try that swallows every error *)
chartDataOf(r, txt) ==
    LET swallow(mapped) == IF IsError(mapped) THEN Arr(<<>>) ELSE mapped
        map(rawChartData) ==
            IF rawChartData.t = "arr" THEN mapChart(r, rawChartData.a) ELSE Arr(<<>>)
    IN IF r = "B"
       THEN IF ~Truthy(txt) THEN Arr(<<>>) ELSE swallow(map(JsonParse(txt.s)))
       ELSE map(extractJson(r, TextOr(txt, <<"[", "]">>)))

(***************************************************************************)
(* analyzeStockPosition                                                    *)
(***************************************************************************)
Intro ==
    <<"#", "#", " ", "A", "n", "a", "l", "y", "s", "i", "s", "\n", "S",
      "t", "e", "a", "d", "y", " ", "v", "o", "l", "u", "m", "e", ".",
      "\n">>

(* the text that stands in for an empty analysis response *)
DefaultAnalysisText(r) ==
    IF r \in {"A", "B"} THEN
        <<"N", "o", " ", "a", "n", "a", "l", "y", "s", "i", "s", " ", "a",
        "v", "a", "i", "l", "a", "b", "l", "e", ".">>
    ELSE IF r = "C" THEN
        <<"A", "n", "a", "l", "y", "s", "i", "s", " ", "p", "e", "n", "d",
        "i", "n", "g", ".", ".", ".">>
    ELSE IF r = "D" THEN
        <<"A", "n", "a", "l", "y", "s", "i", "s", " ", "l", "i", "n", "k",
        " ", "f", "a", "i", "l", "e", "d", ".">>
    ELSE
        <<"A", "n", "a", "l", "y", "s", "i", "s", " ", "f", "a", "i", "l",
        "e", "d", ".">>

(* the body of the try block once both responses are there *)
analysisTry(r, buy, txt, chartTxt) ==
    LET return(analysisText, currentPriceEstimate, chartData) ==
            IF IsError(chartData) THEN chartData
            ELSE [t |-> "analysis",
                  analysisText |-> cleanAnalysisText(r, analysisText),
                  chartData |-> chartData.a,
                  currentPriceEstimate |-> currentPriceEstimate,
                  sentiment |-> sentimentOf(r, currentPriceEstimate, buy),
                  news |-> newsOf(analysisText),
                  recommendation |-> recommendationOf(r, analysisText)]
        body(analysisText) ==
            return(analysisText, currentPriceEstimateOf(r, analysisText),
                   chartDataOf(r, chartTxt))
    IN body(TextOr(txt, DefaultAnalysisText(r)).s)

(* the catch block of analyzeStockPosition: the error the caller gets *)
analysisCatch(r, err) ==
    CASE r \in {"A", "B", "C"} -> AnalysisInterrupted
      [] r = "D" ->
            IF MessageIncludes(err, Pat429) THEN QuotaFull
            ELSE IF ~HasMessage(err) THEN TypeError
            ELSE IF MessageIncludes(err, PatConfigurationRequired) THEN err
            ELSE AnalysisInterrupted
      [] OTHER ->
            IF ~HasMessage(err) THEN TypeError
            ELSE IF MessageIncludes(err, PatConfigurationRequired) THEN err
            ELSE AnalysisInterrupted

analysisSettled(r, buy, r1, r2) ==
    LET settle(out) ==
            IF IsError(out)
            THEN [value |-> analysisCatch(r, out), sources |-> <<>>]
            ELSE [value |-> out, sources |-> sourcesOf(r1.chunks)]
    IN settle(IF r2.st = "fail" THEN r2.error
              ELSE analysisTry(r, buy, r1.text, r2.text))

(***************************************************************************)
(* What the provider can answer to the narrative and forecast requests     *)
(***************************************************************************)
PriceLines == {<<>>, <<"C", "U", "R", "R", "E", "N", "T", "_", "P", "R", "I", "C",
    "E", ":", " ", "₹", "4", "5", "2", ".", "3", "0">>, <<"C", "U", "R", "R", "E",
    "N", "T", "_", "P", "R", "I", "C", "E", ":", " ", "0">>, <<"C", "U", "R", "R",
    "E", "N", "T", "_", "P", "R", "I", "C", "E", ":", " ", "₹", "1", ",", "2", "3",
    "4", ".", "5", "0">>, <<"C", "U", "R", "R", "E", "N", "T", "_", "P", "R", "I",
    "C", "E", ":", " ", "N", "/", "A", ",", " ", "p", "e", "n", "d", "i", "n",
    "g">>}

RecLines == {<<>>, <<"F", "I", "N", "A", "L", "_", "R", "E", "C", "O", "M", "M",
    "E", "N", "D", "A", "T", "I", "O", "N", ":", " ", "S", "T", "R", "O", "N", "G",
    "_", "B", "U", "Y", " ", "|", " ", "1", ",", "2", "5", "0", ".", "7", "5", " ",
    "|", " ", "s", "t", "r", "o", "n", "g", " ", "e", "a", "r", "n", "i", "n", "g",
    "s">>, <<"F", "I", "N", "A", "L", "_", "R", "E", "C", "O", "M", "M", "E", "N",
    "D", "A", "T", "I", "O", "N", ":", " ", "W", "A", "I", "T", " ", "|", " ", ",",
    " ", "|", " ", "n", "o", " ", "t", "a", "r", "g", "e", "t">>, <<"F", "I", "N",
    "A", "L", "_", "R", "E", "C", "O", "M", "M", "E", "N", "D", "A", "T", "I", "O",
    "N", ":", " ", "s", "t", "r", "o", "n", "g", "_", "s", "e", "l", "l", " ", "|",
    " ", "4", "0", "0", " ", "|", " ", "w", "e", "a", "k", " ", "d", "e", "m", "a",
    "n", "d">>}

Line(l) == IF l = <<>> THEN <<>> ELSE l \o <<"\n">>

(* the news lines of a narrative: two well-formed lines, and a line that
   ends after the second bar and so lacks the sentiment, before and after a
   well-formed line and alone *)
NewsBlocks ==
    {<<"N", "E", "W", "S", "_", "I", "T", "E", "M", ":", " ", "Q", "3",
      " ", "p", "r", "o", "f", "i", "t", " ", "u", "p", " ", "|", " ", "M",
      "a", "r", "g", "i", "n", "s", " ", "w", "i", "d", "e", "n", " ", "|",
      " ", "P", "o", "s", "i", "t", "i", "v", "e", "\n", "N", "E", "W",
      "S", "_", "I", "T", "E", "M", ":", " ", "R", "u", "p", "e", "e", " ",
      "s", "l", "i", "p", "s", " ", "|", " ", "I", "m", "p", "o", "r", "t",
      "s", " ", "c", "o", "s", "t", " ", "m", "o", "r", "e", " ", "|", " ",
      "N", "E", "G", "A", "T", "I", "V", "E", "\n">>,
     <<"N", "E", "W", "S", "_", "I", "T", "E", "M", ":", " ", "P", "r",
      "o", "b", "e", " ", "o", "p", "e", "n", "e", "d", " ", "|", " ", "R",
      "e", "g", "u", "l", "a", "t", "o", "r", " ", "a", "s", "k", "s", " ",
      "|", "\n", "N", "E", "W", "S", "_", "I", "T", "E", "M", ":", " ",
      "R", "u", "p", "e", "e", " ", "s", "l", "i", "p", "s", " ", "|", " ",
      "I", "m", "p", "o", "r", "t", "s", " ", "c", "o", "s", "t", " ", "m",
      "o", "r", "e", " ", "|", " ", "N", "E", "G", "A", "T", "I", "V", "E",
      "\n">>,
     <<"N", "E", "W", "S", "_", "I", "T", "E", "M", ":", " ", "Q", "3",
      " ", "p", "r", "o", "f", "i", "t", " ", "u", "p", " ", "|", " ", "M",
      "a", "r", "g", "i", "n", "s", " ", "w", "i", "d", "e", "n", " ", "|",
      " ", "P", "o", "s", "i", "t", "i", "v", "e", "\n", "N", "E", "W",
      "S", "_", "I", "T", "E", "M", ":", " ", "P", "r", "o", "b", "e", " ",
      "o", "p", "e", "n", "e", "d", " ", "|", " ", "R", "e", "g", "u", "l",
      "a", "t", "o", "r", " ", "a", "s", "k", "s", " ", "|", "\n">>,
     <<"N", "E", "W", "S", "_", "I", "T", "E", "M", ":", " ", "P", "r",
      "o", "b", "e", " ", "o", "p", "e", "n", "e", "d", " ", "|", " ", "R",
      "e", "g", "u", "l", "a", "t", "o", "r", " ", "a", "s", "k", "s", " ",
      "|", "\n">>}

AnalysisTexts ==
    {Str(Intro \o Line(p) \o Line(q)) : p \in PriceLines, q \in RecLines}
    \cup {Str(Intro \o Line(q) \o Line(p)) : p \in PriceLines, q \in RecLines}
    \cup {Str(Intro \o n \o <<"C", "U", "R", "R", "E", "N", "T", "_", "P", "R", "I", "C",
              "E", ":", " ", "₹", "4", "5", "2", ".", "3", "0", "\n", "F",
              "I", "N", "A", "L", "_", "R", "E", "C", "O", "M", "M", "E",
              "N", "D", "A", "T", "I", "O", "N", ":", " ", "S", "T", "R",
              "O", "N", "G", "_", "B", "U", "Y", " ", "|", " ", "1", ",",
              "2", "5", "0", ".", "7", "5", " ", "|", " ", "s", "t", "r",
              "o", "n", "g", " ", "e", "a", "r", "n", "i", "n", "g", "s",
              "\n">>) :
              n \in NewsBlocks}
    \cup {Str(Intro \o Line(q)
              \o <<"F", "I", "N", "A", "L", "_", "R", "E", "C", "O", "M",
                 "M", "E", "N", "D", "A", "T", "I", "O", "N", ":", " ",
                 "S", "T", "R", "O", "N", "G", "_", "B", "U", "Y", " ",
                 "|", " ", "1", ",", "2", "5", "0", ".", "7", "5", " ",
                 "|", " ", "s", "t", "r", "o", "n", "g", " ", "e", "a",
                 "r", "n", "i", "n", "g", "s", "\n">>) :
              q \in RecLines}
    \cup {Undefined}

AnalysisResponses ==
    IF KeyMissing THEN Failures ELSE Failures \cup {OkResponse(t) : t \in AnalysisTexts}

ChartTexts ==
    {Str(t) : t \in {<<"[", "{", "\"", "l", "a", "b", "e", "l", "\"", ":", "\"",
        "D", "a", "y", " ", "1", "\"", ",", "\"", "p", "r", "i", "c", "e", "\"",
        ":", "1", "2", "3", ".", "4", "}", ",", "{", "\"", "l", "a", "b", "e", "l",
        "\"", ":", "\"", "D", "a", "y", " ", "2", "\"", ",", "\"", "p", "r", "i",
        "c", "e", "\"", ":", "1", "2", "5", "}", "]">>, <<"[", "{", "\"", "l", "a",
        "b", "e", "l", "\"", ":", "\"", "D", "a", "y", " ", "1", "\"", ",", "\"",
        "p", "r", "i", "c", "e", "\"", ":", "\"", "₹", "1", "2", "3", ".", "4",
        "\"", "}", "]">>, <<"[", "{", "\"", "l", "a", "b", "e", "l", "\"", ":",
        "\"", "D", "a", "y", " ", "1", "\"", "}", "]">>, <<"[", "n", "u", "l", "l",
        "]">>,
                     <<"{", "\"", "l", "a", "b", "e", "l", "\"", ":", "\"", "D",
                         "a", "y", " ", "1", "\"", ",", "\"", "p", "r", "i", "c",
                         "e", "\"", ":", "1", "2", "3", ".", "4", "}">>, <<"n", "o",
                         "t", " ", "a", "v", "a", "i", "l", "a", "b", "l", "e">>,
                         <<"[", "]">>}}
    \cup {Undefined}

ChartResponses ==
    IF KeyMissing THEN Failures ELSE Failures \cup {OkResponse(t) : t \in ChartTexts}

BuyPrices == {Num(4523000), Num(1000000)}

(***************************************************************************)
(* The entry points as processes: one action per stretch of code between   *)
(* two awaits                                                              *)
(***************************************************************************)
Init ==
    /\ rev \in {"A", "B", "C", "D", "E"}
    /\ apiKey \in {"absent", "empty", "set"}
    /\ pc = "idle"
    /\ fn = "none"
    /\ symbol = <<>>
    /\ buyPrice = Num(0)
    /\ requests = 0
    /\ resp1 = NoResponse
    /\ resp2 = NoResponse
    /\ result = [t |-> "none"]
    /\ sources = <<>>
    /\ text = Undefined
    /\ payload = <<>>
    /\ jsonOut = [t |-> "pending"]
    /\ UiIdle

(* getStockQuote(sym) up to its await.  Revisions C, D, E call getAIClient
   inside the try; revisions A and B hand the key to the SDK constructor
   unchecked (A in the function, B when the module is loaded), which is
   outside any try and may or may not refuse a missing key. *)
QuoteCall(sym) ==
    /\ pc = "idle"
    /\ fn' = "quote"
    /\ symbol' = sym
    /\ IF ChecksKey(rev) /\ IsError(getAIClient(rev, apiKey))
       THEN /\ pc' = "done"
            /\ result' = quoteCatch(rev, getAIClient(rev, apiKey))
            /\ UNCHANGED requests
       ELSE \/ /\ ~ChecksKey(rev)
               /\ KeyMissing
               /\ pc' = "done"
               /\ result' = SdkError
               /\ UNCHANGED requests
            \/ /\ pc' = "quoteRequest"
               /\ requests' = requests + 1
               /\ UNCHANGED result
    /\ UNCHANGED <<rev, apiKey, buyPrice, resp1, resp2, sources>>
    /\ UNCHANGED <<extractVars, uiVars>>

(* the quote request settles and getStockQuote runs to its end *)
QuoteResponse(resp) ==
    /\ pc = "quoteRequest"
    /\ resp1' = resp
    /\ LET return(settled) ==
            /\ result' = settled.value
            /\ sources' = settled.sources
       IN return(quoteSettled(rev, symbol, resp))
    /\ pc' = "done"
    /\ UNCHANGED <<rev, apiKey, fn, symbol, buyPrice, requests, resp2>>
    /\ UNCHANGED <<extractVars, uiVars>>

(* analyzeStockPosition(input) up to its first await *)
AnalyzeCall(sym, buy) ==
    /\ pc = "idle"
    /\ fn' = "analysis"
    /\ symbol' = sym
    /\ buyPrice' = buy
    /\ IF ChecksKey(rev) /\ IsError(getAIClient(rev, apiKey))
       THEN /\ pc' = "done"
            /\ result' = analysisCatch(rev, getAIClient(rev, apiKey))
            /\ UNCHANGED requests
       ELSE \/ /\ ~ChecksKey(rev)
               /\ KeyMissing
               /\ pc' = "done"
               /\ result' = SdkError
               /\ UNCHANGED requests
            \/ /\ pc' = "analysisRequest"
               /\ requests' = requests + 1
               /\ UNCHANGED result
    /\ UNCHANGED <<rev, apiKey, resp1, resp2, sources>>
    /\ UNCHANGED <<extractVars, uiVars>>

(* the narrative request settles: a failure goes to the catch block, a
   response lets the function issue the forecast request and await it *)
AnalysisResponse(resp) ==
    /\ pc = "analysisRequest"
    /\ resp1' = resp
    /\ IF resp.st = "fail"
       THEN /\ pc' = "done"
            /\ result' = analysisCatch(rev, resp.error)
            /\ UNCHANGED requests
       ELSE /\ pc' = "chartRequest"
            /\ requests' = requests + 1
            /\ UNCHANGED result
    /\ UNCHANGED <<rev, apiKey, fn, symbol, buyPrice, resp2, sources>>
    /\ UNCHANGED <<extractVars, uiVars>>

(* the forecast request settles and analyzeStockPosition runs to its end *)
ChartResponse(resp) ==
    /\ pc = "chartRequest"
    /\ resp2' = resp
    /\ LET return(settled) ==
            /\ result' = settled.value
            /\ sources' = settled.sources
       IN return(analysisSettled(rev, buyPrice, resp1, resp))
    /\ pc' = "done"
    /\ UNCHANGED <<rev, apiKey, fn, symbol, buyPrice, requests, resp1>>
    /\ UNCHANGED <<extractVars, uiVars>>

Next ==
    \/ \E sym \in Symbols : QuoteCall(sym)
    \/ \E resp \in QuoteResponses : QuoteResponse(resp)
    \/ \E sym \in Symbols, buy \in BuyPrices : AnalyzeCall(sym, buy)
    \/ \E resp \in AnalysisResponses : AnalysisResponse(resp)
    \/ \E resp \in ChartResponses : ChartResponse(resp)

Spec == Init /\ [][Next]_vars

(***************************************************************************)
(* Properties of the entry points (checked under Spec)                     *)
(***************************************************************************)
Done == pc = "done"

(* C1: with no API key (absent or empty) a call of getStockQuote or of
   analyzeStockPosition raises the configuration error before any
   generateContent request: the number of requests an unconfigured call
   issues is zero in every execution. *)
NoRequestWithoutKey == KeyMissing => requests = 0

(* C2: the error raised for a missing API key reaches the caller of
   getStockQuote and of analyzeStockPosition unmodified: it is not swallowed
   into a zero quote and not replaced by the generic analysis error or any
   other error. *)
ConfigErrorReachesCaller ==
    (Done /\ KeyMissing /\ ChecksKey(rev)) => result = getAIClient(rev, apiKey)

(* C3: getStockQuote never returns a quote whose currentPrice is 0 or
   negative: it returns a quote with currentPrice > 0 or raises an error,
   and when the response held no usable price the error names the symbol. *)
QuoteNeverZero ==
    (Done /\ fn = "quote") =>
        /\ result.t = "quote" => Greater(result.currentPrice, Num(0))
        /\ (IsError(result) /\ resp1.st = "ok") => result = PriceNotFound(symbol)

(* C7: every numeric field of a returned structure (currentPrice,
   suggestedBuy, suggestedSell, recommendation.price, a present
   currentPriceEstimate, the price of every chart point) is a defined number
   that is not NaN. *)
NumericFieldsAreNumbers ==
    Done =>
        /\ result.t = "quote" =>
               /\ result.currentPrice.t = "num"
               /\ result.suggestedBuy.t = "num"
               /\ result.suggestedSell.t = "num"
        /\ result.t = "analysis" =>
               /\ result.currentPriceEstimate.t \in {"num", "undef"}
               /\ result.recommendation # Undefined =>
                      result.recommendation.price.t = "num"
               /\ \A k \in 1..Len(result.chartData) :
                      result.chartData[k].price.t = "num"

(* the response text the revision works on *)
RawText ==
    TextOr(resp1.text, IF rev \in {"A", "B", "C"} THEN <<"{", "}">> ELSE <<>>).s

(* what the revision extracts from the response text as structured data *)
Structured ==
    IF rev = "B"
    THEN LET v == JsonParse(StripEnds(RawText))
         IN IF IsError(v) THEN Null ELSE v
    ELSE extractJson(rev, Str(RawText))

(* the first numeric-looking token of the text that is greater than 1 *)
RECURSIVE FirstTokenAboveOne(_, _)
FirstTokenAboveOne(s, i) ==
    LET p == FirstDigitFrom(s, i)
        e == NumberTokenEnd(s, p)
    IN IF p = 0 THEN <<>>
       ELSE IF Greater(cleanNumber(Str(SubSeq(s, p, e - 1))), Num(Scale))
            THEN SubSeq(s, p, e - 1)
       ELSE FirstTokenAboveOne(s, e)

(* C8: whenever structured extraction yields no usable currentPrice (absent,
   unparseable, zero or negative) and the raw text holds a numeric-looking
   token greater than 1, getStockQuote returns a quote whose currentPrice is
   the first such token, thousands separators removed. *)
QuoteFallbackHeuristic ==
    (/\ Done /\ fn = "quote" /\ resp1.st = "ok"
     /\ ~Greater(cleanNumber(GetPropOpt(Structured, KeyCurrentPrice)), Num(0))
     /\ FirstTokenAboveOne(RawText, 1) # <<>>)
        => /\ result.t = "quote"
           /\ result.currentPrice = cleanNumber(Str(FirstTokenAboveOne(RawText, 1)))

(* a field the model supplied as a number or as a string that parses *)
Accepted(raw) ==
    \/ raw.t = "num"
    \/ raw.t = "str" /\ ParseFloat(KeepNumeric(raw.s)).t = "num"

(* C9: currentPrice, suggestedBuy and suggestedSell are coerced
   independently: a field that is a number, or a string that parses once
   every character other than digits, dot and minus is removed, is accepted
   with that value; a field that is neither becomes 0 or the price-relative
   fallback, whatever the other two fields are. *)
FieldsCoercedIndependently ==
    (/\ Done /\ fn = "quote" /\ resp1.st = "ok"
     /\ Structured.t = "obj" /\ result.t = "quote")
        => LET raw(key) == GetProp(Structured, key)
               cp == result.currentPrice
           IN /\ (Accepted(raw(KeyCurrentPrice))
                   /\ Greater(cleanNumber(raw(KeyCurrentPrice)), Num(0)))
                      => cp = cleanNumber(raw(KeyCurrentPrice))
              /\ IF Accepted(raw(KeySuggestedBuy))
                    /\ cleanNumber(raw(KeySuggestedBuy)) # Num(0)
                 THEN result.suggestedBuy = cleanNumber(raw(KeySuggestedBuy))
                 ELSE result.suggestedBuy \in {Num(0), Times(cp, 95), Times(cp, 96)}
              /\ IF Accepted(raw(KeySuggestedSell))
                    /\ cleanNumber(raw(KeySuggestedSell)) # Num(0)
                 THEN result.suggestedSell = cleanNumber(raw(KeySuggestedSell))
                 ELSE result.suggestedSell \in {Num(0), Times(cp, 110), Times(cp, 108)}

(* C10: the sentiment is a function of currentPriceEstimate and buyPrice:
   bullish for every estimate above buyPrice, bearish for every estimate
   below it (an estimate of 0 included), neutral when the estimate is absent
   or equal to buyPrice. *)
SentimentFromEstimate ==
    (/\ Done /\ result.t = "analysis"
     /\ result.currentPriceEstimate.t \in {"num", "undef"})
        => result.sentiment =
               IF Greater(result.currentPriceEstimate, buyPrice) THEN "bullish"
               ELSE IF Less(result.currentPriceEstimate, buyPrice) THEN "bearish"
               ELSE "neutral"

(* C11: a failure of either generateContent call of analyzeStockPosition,
   the key being configured, reaches the caller as the one generic analysis
   error: never the original error, never another exception thrown by the
   catch handler, and a result is returned only when both calls succeeded. *)
AnalysisFailureIsGeneric ==
    (Done /\ fn = "analysis" /\ ~KeyMissing) =>
        IF resp1.st = "ok" /\ resp2.st = "ok"
        THEN result.t = "analysis" \/ result = AnalysisInterrupted
        ELSE result = AnalysisInterrupted

(* the value the revision parses out of the forecast response *)
ForecastParsed ==
    IF rev = "B"
    THEN IF Truthy(resp2.text) THEN JsonParse(resp2.text.s) ELSE Undefined
    ELSE extractJson(rev, TextOr(resp2.text, <<"[", "]">>))

(* C12: malformed forecast data never fails the analysis: whatever text the
   forecast response holds (no JSON, JSON that is no array, an array with a
   null or non-object element), analyzeStockPosition returns a result, and
   the chartData of the result is empty when the parsed value is no array. *)
MalformedForecastTolerated ==
    (Done /\ fn = "analysis" /\ resp1.st = "ok" /\ resp2.st = "ok") =>
        /\ result.t = "analysis"
        /\ ForecastParsed.t # "arr" => result.chartData = <<>>

(* C13: when a generateContent call is rejected with the provider's quota
   error (a message that holds 429 or RESOURCE_EXHAUSTED), getStockQuote and
   analyzeStockPosition both raise a rate-limit error, which is neither the
   generic analysis error nor a returned quote. *)
RateLimitSurfaced ==
    LET quota(resp) ==
            /\ resp.st = "fail"
            /\ resp.error.kind = "Provider"
            /\ resp.error.marks # {}
    IN (Done /\ (quota(resp1) \/ quota(resp2))) =>
           result \in {QuotaExhausted, QuotaFull}

(* C14: the signal of a returned recommendation is exactly one of STRONG_BUY,
   STRONG_SELL, NEUTRAL and WAIT, in whatever letter case the model wrote it
   on its recommendation line. *)
SignalIsCanonical ==
    (Done /\ result.t = "analysis" /\ result.recommendation # Undefined) =>
        result.recommendation.signal \in Signals

(* the narrative text analyzeStockPosition works on *)
NarrativeText == TextOr(resp1.text, DefaultAnalysisText(rev)).s

(* C15: when the narrative text holds a line FINAL_RECOMMENDATION: SIGNAL |
   number | reason (the three parts on the line of the marker, the number
   holding a digit), the returned recommendation has the signal of such a
   line, the price that is its number without the commas, and its trimmed
   reason; when the text holds no such line the recommendation is undefined. *)
RecommendationParsed ==
    (Done /\ result.t = "analysis") =>
        LET s == NarrativeText
            line(m) ==
                /\ m.found
                /\ \E k \in 1..Len(m.cap) : m.cap[k] \in Digits
                /\ m.to = LineEnd(s, m.from)
            parsed(m) ==
                [t |-> "rec", signal |-> m.signal,
                 price |-> ParseFloat(DropCommas(m.cap)), reason |-> m.reason]
            at(i) ==
                IF StartsWithAtCI(s, i, MarkerRecommendation)
                THEN recMatchAt(s, i) ELSE NoMatch
        IN IF \E i \in 1..Len(s) : line(at(i))
           THEN \E i \in 1..Len(s) :
                    line(at(i)) /\ result.recommendation = parsed(at(i))
           ELSE result.recommendation = Undefined

(* the news items of each line of the text taken alone, in text order *)
RECURSIVE NewsByLine(_, _)
NewsByLine(s, i) ==
    IF i > Len(s) THEN <<>>
    ELSE newsOf(SubSeq(s, i, LineEnd(s, i))) \o NewsByLine(s, LineEnd(s, i) + 2)

(* C16: the news list of a returned analysis holds exactly the items of the
   well-formed NEWS_ITEM lines of the narrative text, in text order and with
   the sentiment in lower case: each line is read on its own, so that a line
   without a sentiment gives no item and takes no text from the next line. *)
NewsItemPerLine ==
    (Done /\ result.t = "analysis") =>
        result.news = NewsByLine(NarrativeText, 1)

(* C17: the currentPriceEstimate of a returned analysis is the number that
   follows the first CURRENT_PRICE: marker on the marker's own line, after a
   prefix without digits and with the commas removed; it is undefined when
   the text has no marker or the marker's line holds no number after it, so
   that a number of a later line is never taken. *)
EstimateFromMarkerLine ==
    (Done /\ result.t = "analysis") =>
        LET s == NarrativeText
            marker(m) == StartsWithAtCI(s, m, MarkerCurrentPrice)
            number(q) ==
                ParseFloat(DropCommas(SubSeq(s, q, NumberCaptureEnd(s, q) - 1)))
            onLine(a, e) ==
                IF \E j \in a..e : s[j] \in Digits
                THEN number(CHOOSE j \in a..e :
                                s[j] \in Digits /\ \A k \in a..(j - 1) : s[k] \notin Digits)
                ELSE Undefined
            after(m) == onLine(m + Len(MarkerCurrentPrice), LineEnd(s, m))
        IN result.currentPriceEstimate =
               IF \E m \in 1..Len(s) : marker(m)
               THEN after(CHOOSE m \in 1..Len(s) :
                              marker(m) /\ \A k \in 1..(m - 1) : ~marker(k))
               ELSE Undefined

(* C18: the analysisText of a returned analysis holds none of the directives:
   the news pattern and the recommendation pattern match nowhere in it and
   it holds no CURRENT_PRICE: marker, whatever the narrative text was. *)
NoDirectiveLeft ==
    (Done /\ result.t = "analysis") =>
        /\ newsMatches(result.analysisText, 1) = <<>>
        /\ ~recMatch(result.analysisText).found
        /\ \A m \in 1..Len(result.analysisText) :
               ~StartsWithAtCI(result.analysisText, m, MarkerCurrentPrice)

(* C19: the forecast request of analyzeStockPosition does not wait for the
   narrative request: once the narrative request is issued the forecast
   request is issued too, be the narrative request pending, completed or
   failed; and an analysis is returned only after both have completed. *)
ForecastIndependentOfNarrative ==
    /\ (fn = "analysis" /\ requests >= 1) => requests = 2
    /\ (Done /\ result.t = "analysis") => (resp1.st = "ok" /\ resp2.st = "ok")

(* C20: in every quote getStockQuote returns, a suggestedBuy or suggestedSell
   that the response did not supply in a usable form (missing, unparseable
   or zero) is the fixed share of currentPrice (0.95 or 0.96 of it for the
   buy level, 1.10 or 1.08 of it for the sell level), so that it is not zero
   and suggestedBuy < currentPrice < suggestedSell. *)
LevelsDerivedFromPrice ==
    (Done /\ fn = "quote" /\ result.t = "quote") =>
        LET raw(key) ==
                IF resp1.st = "ok" THEN GetPropOpt(Structured, key) ELSE Undefined
            unusable(v) == ~Accepted(v) \/ cleanNumber(v) = Num(0)
            cp == result.currentPrice
        IN /\ unusable(raw(KeySuggestedBuy)) =>
                  /\ result.suggestedBuy \in {Times(cp, 95), Times(cp, 96)}
                  /\ result.suggestedBuy # Num(0)
                  /\ Less(result.suggestedBuy, cp)
           /\ unusable(raw(KeySuggestedSell)) =>
                  /\ result.suggestedSell \in {Times(cp, 110), Times(cp, 108)}
                  /\ result.suggestedSell # Num(0)
                  /\ Greater(result.suggestedSell, cp)

(***************************************************************************)
(* The components of the user interface.  They run without the service:    *)
(* its variables rest                                                      *)
(***************************************************************************)
backendVars == <<rev, extractVars, serviceVars>>

ServiceUnused ==
    /\ rev = "A"
    /\ text = Undefined
    /\ payload = <<>>
    /\ jsonOut = [t |-> "pending"]
    /\ ServiceIdle

(***************************************************************************)
(* StockInput: the form and handleSubmit                                   *)
(***************************************************************************)
(* String.prototype.toUpperCase *)
toUpperCase(s) == [k \in 1..Len(s) |-> Upper(s[k])]

(* what the user can leave in the ticker field *)
SymbolTexts ==
    {<<>>, <<"t", "c", "s">>, <<"T", "C", "S">>, <<"I", "n", "f", "y">>}

(* what an input of type number hands to onChange: its content when that is
   a number, else the empty string; neither field sets a minimum *)
NumberTexts ==
    {<<>>, <<"0">>, <<"-", "5">>, <<"4", "5", "2", ".", "3", "0">>, <<"1", "0">>}

Position(sym, buy, qty, strategy) ==
    [t |-> "position", symbol |-> sym, buyPrice |-> buy, quantity |-> qty,
     strategy |-> strategy]

InitForm ==
    /\ ServiceUnused
    /\ UiIdle

(* the onChange handlers of the fields and the strategy buttons *)
SetField(field, value) ==
    /\ form' = [form EXCEPT ![field] = value]
    /\ UNCHANGED <<backendVars, submitted, storeVars, appVars, login>>

handleSubmit ==
    /\ IF Truthy(Str(form.symbol)) /\ Truthy(Str(form.buyPrice))
          /\ Truthy(Str(form.quantity))
       THEN submitted' = Position(toUpperCase(form.symbol), ParseFloat(form.buyPrice),
                                  ParseFloat(form.quantity), form.strategy)
       ELSE UNCHANGED submitted
    /\ UNCHANGED <<backendVars, form, storeVars, appVars, login>>

NextForm ==
    \/ \E v \in SymbolTexts : SetField("symbol", v)
    \/ \E v \in NumberTexts : SetField("buyPrice", v)
    \/ \E v \in NumberTexts : SetField("quantity", v)
    \/ \E v \in {"intraday", "long-term"} : SetField("strategy", v)
    \/ handleSubmit

SpecForm == InitForm /\ [][NextForm]_vars

(* C21: every Position that StockInput passes to onSubmit has an upper-cased
   symbol, a buyPrice above 0, a quantity above 0 (so neither is NaN) and
   the strategy intraday or long-term, whatever the fields hold. *)
SubmittedPositionValid ==
    submitted.t = "position" =>
        /\ submitted.symbol = toUpperCase(submitted.symbol)
        /\ Greater(submitted.buyPrice, Num(0))
        /\ Greater(submitted.quantity, Num(0))
        /\ submitted.strategy \in {"intraday", "long-term"}

(***************************************************************************)
(* Grounding sources: responses that carry citations                       *)
(***************************************************************************)
MaxChunks == 3

Web(uri, title) == [t |-> "obj", uri |-> uri, title |-> title]

(* a citation of the response: chunk.web may be missing, and so may its uri
   and its title *)
Chunks ==
    {[web |-> Undefined],
     [web |-> Web(Str(<<"u", "1">>), Str(<<"t", "1">>))],
     [web |-> Web(Str(<<"u", "2">>), Str(<<"t", "2">>))],
     [web |-> Web(Undefined, Str(<<"t", "3">>))],
     [web |-> Web(Str(<<"u", "4">>), Undefined)]}

ChunkLists ==
    {Undefined} \cup
    {Arr(a) : a \in UNION {[1..n -> Chunks] : n \in 0..MaxChunks}}

Grounded(texts) == {GroundedResponse(txt, c) : txt \in texts, c \in ChunkLists}

GroundedQuoteResponses ==
    Failures \cup
    Grounded({Str(ObjectText(<<"4", "5", "2", ".", "3", "0">>, <<"4", "3", "0">>,
                             <<"4", "9", "0">>)),
              Str(<<"n", "o", " ", "d", "a", "t", "a">>)})

GroundedAnalysisResponses == Failures \cup Grounded({Str(Intro)})

InitSources ==
    /\ Init
    /\ apiKey = "set"

NextSources ==
    \/ \E sym \in Symbols : QuoteCall(sym)
    \/ \E resp \in GroundedQuoteResponses : QuoteResponse(resp)
    \/ \E sym \in Symbols, buy \in BuyPrices : AnalyzeCall(sym, buy)
    \/ \E resp \in GroundedAnalysisResponses : AnalysisResponse(resp)
    \/ \E resp \in {r \in ChartResponses : r.st = "ok" => r.text = Undefined} :
           ChartResponse(resp)

SpecSources == InitSources /\ [][NextSources]_vars

(* the citations of the first response that have a title and a URI, as the
   positions they stand at *)
CitedPositions ==
    LET a == IF resp1.st = "ok" /\ resp1.chunks.t = "arr" THEN resp1.chunks.a ELSE <<>>
    IN {k \in 1..Len(a) :
            /\ a[k].web.t = "obj"
            /\ a[k].web.uri.t = "str" /\ a[k].web.uri.s # <<>>
            /\ a[k].web.title.t = "str" /\ a[k].web.title.s # <<>>}

(* C22: the grounding sources of a quote or of an analysis that is returned
   are exactly the citations of the response that have both a title and a
   URI, one source per such citation, in the order of the response and with
   repetitions kept. *)
SourcesAreCitations ==
    (Done /\ result.t \in {"quote", "analysis"}) =>
        /\ Len(sources) = Cardinality(CitedPositions)
        /\ \A j \in 1..Len(sources) :
               LET k == CHOOSE i \in CitedPositions :
                            Cardinality({h \in CitedPositions : h < i}) = j - 1
               IN sources[j] = [title |-> resp1.chunks.a[k].web.title,
                                uri |-> resp1.chunks.a[k].web.uri]

(***************************************************************************)
(* trackingService: the activity log kept in localStorage                  *)
(***************************************************************************)
LogCap == 100

MaxVaried == 1

Emails == {"a@x.in", "b@x.in"}

(* what navigator.geolocation gave Login: nothing, or whole degrees *)
Locations == {Null, [lat |-> 19, lng |-> 73]}

Cities == <<"Mumbai", "Delhi", "Bangalore", "Hyderabad", "Chennai", "Pune", "Kolkata">>

mockReverseGeocode(lat, lng) ==
    LET product == IF lat * lng < 0 THEN 0 - lat * lng ELSE lat * lng
    IN Cities[((product * 100) % Len(Cities)) + 1]

(* getLogs: JSON.parse of what logActivity stored with JSON.stringify; the
   numbers, strings and nulls of the entries come back as written, and a
   missing item is the empty list *)
getLogs == store.logs

(* the same with the new entry put last: slice keeps the oldest entries *)
logActivityAppends(email, action, details, location) ==
    LET newLog == [id |-> clock + 1, timestamp |-> clock + 1, email |-> email,
                   action |-> action, details |-> details, location |-> location]
    IN /\ store' = [store EXCEPT !.logs =
                         SubSeq(getLogs \o <<newLog>>, 1,
                                IF Len(getLogs) + 1 < LogCap THEN Len(getLogs) + 1
                                ELSE LogCap)]
       /\ clock' = clock + 1

(* logActivity: a new entry with a fresh id goes first and the list is cut
   to its first LogCap entries *)
logActivity(email, action, details, location) ==
    LET finalLocation ==
            IF location = Null THEN Null
            ELSE [lat |-> location.lat, lng |-> location.lng,
                  city |-> mockReverseGeocode(location.lat, location.lng)]
        newLog == [id |-> clock + 1, timestamp |-> clock + 1, email |-> email,
                   action |-> action, details |-> details, location |-> finalLocation]
        updatedLogs == SubSeq(<<newLog>> \o getLogs, 1,
                              IF Len(getLogs) + 1 < LogCap THEN Len(getLogs) + 1 ELSE LogCap)
    IN /\ store' = [store EXCEPT !.logs = updatedLogs]
       /\ clock' = clock + 1

LoggedIn ==
    <<"L", "o", "g", "g", "e", "d", " ", "i", "n", " ", "t", "o", " ",
    "a", "p", "p", "l", "i", "c", "a", "t", "i", "o", "n">>

SearchedPrefix == <<"S", "e", "a", "r", "c", "h", "e", "d", " ">>

InitTracking ==
    /\ ServiceUnused
    /\ UiIdle

(* the callers of logActivity: App.handleLoginSuccess and
   App.handleStockSubmit.  The early calls are logins of one user; the
   calls around the cap are any. *)
LogActivityCall(email, action, details, location) ==
    /\ clock < LogCap + MaxVaried
    /\ clock + MaxVaried < LogCap =>
           (email = "a@x.in" /\ action = "LOGIN" /\ location = Null)
    /\ logActivity(email, action, details, location)
    /\ UNCHANGED <<backendVars, formVars, appVars, login>>

NextTracking ==
    \/ \E email \in Emails, location \in Locations :
           LogActivityCall(email, "LOGIN", LoggedIn, location)
    \/ \E email \in Emails, location \in Locations :
           LogActivityCall(email, "SEARCH_STOCK", SearchedPrefix \o <<"T", "C", "S">>,
                           location)

SpecTracking == InitTracking /\ [][NextTracking]_vars

(* C25: after n calls of logActivity the log holds min(n, 100) entries, the
   newest first: the entry at position k is the one written by call
   n - k + 1, so the entries are exactly those of the most recent
   min(n, 100) calls. *)
LogKeepsNewest ==
    /\ Len(store.logs) = (IF clock < LogCap THEN clock ELSE LogCap)
    /\ Len(store.logs) <= 100
    /\ \A k \in 1..Len(store.logs) : store.logs[k].id = clock - k + 1

LogKeepsNewestWitness ==
    /\ clock > LogCap
    /\ Len(store.logs) = LogCap
    /\ store.logs[1].id = clock
    /\ store.logs[1].action = "SEARCH_STOCK"

(***************************************************************************)
(* App: the view, the submitted position and the state of its analysis     *)
(***************************************************************************)
MaxPending == 2

MaxAppLogs == 4

StockDatas ==
    {Position(<<"T", "C", "S">>, Num(4523000), Num(100000), "intraday"),
     Position(<<"I", "N", "F", "Y">>, Num(1000000), Num(50000), "long-term")}

(* what analyzeStockPosition resolves to for a position *)
AnalysisOf(data) == [t |-> "analysis", input |-> data]

FailedToFetch ==
    Str(
        <<"F", "a", "i", "l", "e", "d", " ", "t", "o", " ", "f", "e", "t",
        "c", "h", " ", "a", "n", "a", "l", "y", "s", "i", "s", ".", " ",
        "P", "l", "e", "a", "s", "e", " ", "t", "r", "y", " ", "a", "g",
        "a", "i", "n", ".">>)

Loading == [loading |-> TRUE, error |-> Null, result |-> Null]

(* the same with the loading flag left set *)
SucceededStillLoading(data) ==
    [loading |-> TRUE, error |-> Null, result |-> AnalysisOf(data)]

(* setAnalysis({ loading: false, error: null, result }) *)
Succeeded(data) == [loading |-> FALSE, error |-> Null, result |-> AnalysisOf(data)]

Failed == [loading |-> FALSE, error |-> FailedToFetch, result |-> Null]

(* what App renders in its main area *)
ShowsStockInput ==
    /\ app.analysis.result = Null
    /\ ~app.analysis.loading
    /\ app.stockData = Null
ShowsSpinner == app.analysis.loading
ShowsError == Truthy(app.analysis.error)
ShowsDashboard == app.analysis.result # Null /\ app.stockData # Null

InitApp ==
    /\ ServiceUnused
    /\ UiIdle

handleLoginSuccess(email, location) ==
    /\ app.viewMode = "USER_LOGIN"
    /\ Len(store.logs) < MaxAppLogs
    /\ logActivity(email, "LOGIN", LoggedIn, location)
    /\ app' = [app EXCEPT !.userEmail = email, !.userLocation = location,
                          !.viewMode = "USER_APP"]
    /\ UNCHANGED <<backendVars, formVars, calls, login>>

onAdminClick ==
    /\ app.viewMode = "USER_LOGIN"
    /\ app' = [app EXCEPT !.viewMode = "ADMIN_DASHBOARD"]
    /\ UNCHANGED <<backendVars, formVars, storeVars, calls, login>>

onAdminLogout ==
    /\ app.viewMode = "ADMIN_DASHBOARD"
    /\ app' = [app EXCEPT !.viewMode = "USER_LOGIN"]
    /\ UNCHANGED <<backendVars, formVars, storeVars, calls, login>>

(* the Logout button of the header; it ends with handleReset() *)
handleLogout ==
    /\ app.viewMode = "USER_APP"
    /\ app' = [app EXCEPT !.viewMode = "USER_LOGIN", !.userEmail = "",
                          !.userLocation = Null, !.stockData = Null,
                          !.analysis = NoAnalysis]
    /\ UNCHANGED <<backendVars, formVars, storeVars, calls, login>>

(* Try Again of the error panel, onReset of the dashboard *)
handleReset ==
    /\ app.viewMode = "USER_APP"
    /\ ShowsError \/ ShowsDashboard
    /\ app' = [app EXCEPT !.stockData = Null, !.analysis = NoAnalysis]
    /\ UNCHANGED <<backendVars, formVars, storeVars, calls, login>>

(* handleStockSubmit(data) up to its await; StockInput is its only caller *)
handleStockSubmit(data) ==
    /\ app.viewMode = "USER_APP"
    /\ ShowsStockInput
    /\ Len(calls) < MaxPending
    /\ Len(store.logs) < MaxAppLogs
    /\ app' = [app EXCEPT !.stockData = data, !.analysis = Loading]
    /\ logActivity(app.userEmail, "SEARCH_STOCK", SearchedPrefix \o data.symbol,
                   app.userLocation)
    /\ calls' = Append(calls, data)
    /\ UNCHANGED <<backendVars, formVars, login>>

(* handleStockSubmit after its await: call i of analyzeStockPosition
   resolves or rejects *)
AnalysisSettles(i, resolved) ==
    /\ i \in 1..Len(calls)
    /\ app' = [app EXCEPT !.analysis = IF resolved THEN Succeeded(calls[i]) ELSE Failed]
    /\ calls' = SubSeq(calls, 1, i - 1) \o SubSeq(calls, i + 1, Len(calls))
    /\ UNCHANGED <<backendVars, formVars, storeVars, login>>

NextApp ==
    \/ \E email \in Emails, location \in Locations : handleLoginSuccess(email, location)
    \/ onAdminClick
    \/ onAdminLogout
    \/ handleLogout
    \/ handleReset
    \/ \E data \in StockDatas : handleStockSubmit(data)
    \/ \E i \in 1..MaxPending, resolved \in BOOLEAN : AnalysisSettles(i, resolved)

SpecApp == InitApp /\ [][NextApp]_vars

(* C23: once the view has been reset (no position, analysis cleared), by
   handleReset or by logout, a result or an error that arrives later is
   ignored: as long as no position is submitted the analysis stays
   {loading: false, error: null, result: null}. *)
LateOutcomeIgnored ==
    [][(app.stockData = Null /\ app.analysis = NoAnalysis /\ app'.stockData = Null)
           => app'.analysis = NoAnalysis]_vars

(* C24: at most one call of analyzeStockPosition is pending at any time. *)
OneChainPending == Len(calls) <= 1

(* C26: a result is displayed with the position it was computed for, and the
   signed-in view always shows the form, the spinner, the error panel or the
   dashboard. *)
ResultMatchesPosition ==
    /\ app.analysis.result # Null =>
           /\ app.stockData # Null
           /\ app.analysis.result.input = app.stockData
    /\ app.viewMode = "USER_APP" =>
           (ShowsStockInput \/ ShowsSpinner \/ ShowsError \/ ShowsDashboard)

(* C27: loading, error and result exclude one another: while loading there
   is neither an error nor a result, and a result comes with no error and
   no loading flag. *)
AnalysisExclusive ==
    /\ app.analysis.loading =>
           (app.analysis.error = Null /\ app.analysis.result = Null)
    /\ app.analysis.result # Null =>
           (app.analysis.error = Null /\ ~app.analysis.loading)
    /\ app.analysis.error # Null => ~app.analysis.loading

AnalysisExclusiveWitness ==
    /\ app.analysis.result # Null
    /\ app.stockData # Null
    /\ Len(calls) = 1

(***************************************************************************)
(* adminDataService: the user profiles kept in localStorage                *)
(***************************************************************************)
MaxSaves == 4

getUserProfiles == store.profiles

(* the same with the findIndex branch left out: every profile is pushed *)
saveUserProfileAlwaysPushes(profile) ==
    store' = [store EXCEPT !.profiles = Append(getUserProfiles, profile)]

(* saveUserProfile: the profile replaces the stored one of the same email,
   found by findIndex, or is pushed at the end *)
saveUserProfile(profile) ==
    LET users == getUserProfiles
        found == {k \in 1..Len(users) : users[k].email = profile.email}
        existingIndex == IF found = {} THEN 0 - 1
                         ELSE CHOOSE k \in found : \A j \in found : k <= j
    IN store' = [store EXCEPT !.profiles =
                     IF existingIndex > 0 - 1
                     THEN [users EXCEPT ![existingIndex] = profile]
                     ELSE Append(users, profile)]

(* getUserProfile: find gives the first profile of that email, or undefined *)
getUserProfile(email) ==
    LET users == getUserProfiles
        found == {k \in 1..Len(users) : users[k].email = email}
    IN IF found = {} THEN Undefined
       ELSE users[CHOOSE k \in found : \A j \in found : k <= j]

(* the profile Login.handleSignUp builds: the sign-up fields, the email and
   joinedAt: Date.now() *)
UserProfile(name, email) ==
    [name |-> name, email |-> email, mobile |-> "9000000000", city |-> "Pune",
     profession |-> "Student", joinedAt |-> clock + 1]

InitProfiles ==
    /\ ServiceUnused
    /\ UiIdle

SaveUserProfileCall(name, email) ==
    /\ clock < MaxSaves
    /\ saveUserProfile(UserProfile(name, email))
    /\ clock' = clock + 1
    /\ UNCHANGED <<backendVars, formVars, appVars, login>>

NextProfiles ==
    \E name \in {"Asha", "Ravi"}, email \in Emails \cup {"c@x.in"} :
        SaveUserProfileCall(name, email)

SpecProfiles == InitProfiles /\ [][NextProfiles]_vars

(* C30: a call of saveUserProfile leaves the store with one profile per
   email; getUserProfile of the saved email returns the profile just saved;
   every profile of another email stays as it was and where it was, and the
   saved profile takes the place of the one it replaces or goes last. *)
ProfilesKeyedByEmail ==
    [][clock' = clock + 1 =>
        LET old == store.profiles
            new == store'.profiles
        IN \E k \in 1..Len(new) :
               /\ new[k].joinedAt = clock'
               /\ \E email \in Emails \cup {"c@x.in"} :
                      new[k].email = email /\ getUserProfile(email)' = new[k]
               /\ \A j \in 1..Len(new) :
                      j # k => /\ new[j].email # new[k].email
                               /\ j <= Len(old)
                               /\ new[j] = old[j]
               /\ \A j \in 1..Len(old) :
                      old[j].email = new[k].email <=> j = k
               /\ Len(new) >= Len(old)]_vars

ProfilesKeyedByEmailWitness ==
    /\ Len(store.profiles) = 2
    /\ clock = 3
    /\ store.profiles[1].joinedAt = 3
    /\ store.profiles[2].joinedAt = 2

(***************************************************************************)
(* Login: the two revisions of the component (version 1 with the steps 1   *)
(* and 2, here the views LOGIN and OTP; version 2 with the SIGNUP view)    *)
(***************************************************************************)
MaxMails == 2

Otps == {"111111", "222222"}

InitLogin ==
    /\ ServiceUnused
    /\ FormIdle
    /\ StoreIdle
    /\ AppIdle
    /\ login \in {LoginMounted(1), LoginMounted(2)}

(* Login is rendered until App leaves the USER_LOGIN view *)
Mounted == login.onLoginSuccess = <<>>

LoginStep(after) ==
    /\ Mounted
    /\ login' = after
    /\ UNCHANGED <<backendVars, formVars, storeVars, appVars>>

(* the email field of the LOGIN and SIGNUP forms; nothing disables it *)
setEmail(value) ==
    /\ login.view \in {"LOGIN", "SIGNUP"}
    /\ LoginStep([login EXCEPT !.email = value])

(* what is typed equals the generated CAPTCHA ("match") or not *)
setCaptchaInput(value) ==
    /\ login.view \in {"LOGIN", "SIGNUP"}
    /\ LoginStep([login EXCEPT !.captchaInput = value])

setOtpInput(value) ==
    /\ login.view = "OTP"
    /\ LoginStep([login EXCEPT !.otpInput = value])

setView(value) ==
    /\ login.version = 2
    /\ login.view \in {"LOGIN", "SIGNUP"} \ {value}
    /\ LoginStep([login EXCEPT !.view = value, !.error = ""])

(* the CAPTCHA test the two submit handlers share: a mismatch regenerates
   the CAPTCHA and empties the field, a match starts the timer *)
captchaGate(timer) ==
    IF login.captchaInput # "match"
    THEN [login EXCEPT !.error = "Incorrect CAPTCHA", !.captchaInput = ""]
    ELSE [login EXCEPT !.error = "", !.isLoading = TRUE,
                       !.timers = Append(@, timer)]

(* the timer callback closes over the email of the render that submitted *)
handleSendOtp ==
    /\ login.view = "LOGIN"
    /\ ~login.isLoading
    /\ login.email # ""
    /\ Len(login.mockEmails) + Len(login.timers) < MaxMails
    /\ LoginStep(IF login.version = 2 /\ getUserProfile(login.email) = Undefined
                 THEN [login EXCEPT !.error = "No account found"]
                 ELSE captchaGate([kind |-> "send", email |-> login.email]))

handleSignUp ==
    /\ login.version = 2
    /\ login.view = "SIGNUP"
    /\ ~login.isLoading
    /\ login.email # ""
    /\ Len(login.mockEmails) + Len(login.timers) < MaxMails
    /\ LoginStep(captchaGate([kind |-> "signup", email |-> login.email]))

handleVerifyOtp ==
    /\ login.view = "OTP"
    /\ ~login.isLoading
    /\ LoginStep(IF login.otpInput = login.generatedOtp
                 THEN [login EXCEPT !.error = "", !.isLoading = TRUE,
                                    !.timers = Append(@, [kind |-> "verify",
                                                          email |-> login.email,
                                                          otp |-> login.otpInput])]
                 ELSE [login EXCEPT !.error = "Invalid OTP"])

(* version 1: Change Email clears both OTP fields; version 2: startFresh
   clears the entered OTP only.  Both regenerate the CAPTCHA. *)
handleChangeEmail ==
    /\ login.view = "OTP"
    /\ LoginStep([login EXCEPT
           !.view = "LOGIN", !.error = "", !.otpInput = "",
           !.generatedOtp = IF login.version = 1 THEN "" ELSE @,
           !.captchaInput = IF @ = "" THEN "" ELSE "other"])

(* a setTimeout callback runs *)
TimerFires(i, otp) ==
    /\ Mounted
    /\ i \in 1..Len(login.timers)
    /\ LET timer == login.timers[i]
           rest == SubSeq(login.timers, 1, i - 1)
                   \o SubSeq(login.timers, i + 1, Len(login.timers))
           mailed == [login EXCEPT
                         !.timers = rest, !.generatedOtp = otp,
                         !.mockEmails = <<[to |-> timer.email, code |-> otp]>> \o @,
                         !.isLoading = FALSE, !.view = "OTP"]
       IN CASE timer.kind = "send" ->
                   /\ login' = mailed
                   /\ UNCHANGED storeVars
            [] timer.kind = "signup" ->
                   /\ saveUserProfile(UserProfile("Asha", timer.email))
                   /\ clock' = clock + 1
                   /\ login' = mailed
            [] OTHER ->
                   /\ login' = [login EXCEPT
                          !.timers = rest,
                          !.onLoginSuccess = Append(@, [email |-> timer.email,
                                                        otp |-> timer.otp])]
                   /\ UNCHANGED storeVars
    /\ UNCHANGED <<backendVars, formVars, appVars>>

NextLogin ==
    \/ \E value \in Emails : setEmail(value)
    \/ \E value \in {"match", "other"} : setCaptchaInput(value)
    \/ \E value \in Otps : setOtpInput(value)
    \/ \E value \in {"LOGIN", "SIGNUP"} : setView(value)
    \/ handleSendOtp
    \/ handleSignUp
    \/ handleVerifyOtp
    \/ handleChangeEmail
    \/ \E i \in 1..MaxMails, otp \in Otps : TimerFires(i, otp)

SpecLogin == InitLogin /\ [][NextLogin]_vars

(* C28: onLoginSuccess(email, location) is called only when the OTP entered
   is the OTP generated last, that OTP was mailed to the email passed, and,
   in the revision with sign-up, the email passed has a stored profile. *)
LoginProvesEmail ==
    \A k \in 1..Len(login.onLoginSuccess) :
        /\ login.mockEmails # <<>>
        /\ login.onLoginSuccess[k].otp = login.mockEmails[1].code
        /\ login.onLoginSuccess[k].email = login.mockEmails[1].to
        /\ login.version = 2 => getUserProfile(login.onLoginSuccess[k].email) # Undefined

(***************************************************************************)
(* StockInput: the Pro Tips chosen when the component mounts               *)
(***************************************************************************)
MaxSuggestions == 5

MaxSearches == 1

TipsShown == 4

getManualSuggestions == store.suggestions

(* addManualSuggestion: the new suggestion gets an id and a timestamp and
   goes first *)
addManualSuggestion(sug) ==
    /\ store' = [store EXCEPT !.suggestions =
                     <<[id |-> clock + 1, symbol |-> sug.symbol, action |-> "BUY",
                        targetUserEmail |-> sug.targetUserEmail,
                        timestamp |-> clock + 1]>> \o getManualSuggestions]
    /\ clock' = clock + 1

(* details.replace('Searched ', ''): the first occurrence is taken out *)
withoutSearched(details) ==
    LET at == {p \in 1..Len(details) : StartsWithAt(details, p, SearchedPrefix)}
        cut(p) == SubSeq(details, 1, p - 1)
                  \o SubSeq(details, p + Len(SearchedPrefix), Len(details))
    IN IF at = {} THEN details ELSE cut(CHOOSE p \in at : \A q \in at : p <= q)

(* the body of the effect: the stored suggestions under the comparator
   (targeted at the user, then a symbol the user searched, then newest),
   sorted stably, and the first TipsShown of them *)
prioritizedSugs(userEmail) ==
    LET allSugs == getManualSuggestions
        userInterests ==
            {withoutSearched(getLogs[k].details) :
                k \in {i \in 1..Len(getLogs) : /\ getLogs[i].email = userEmail
                                               /\ getLogs[i].action = "SEARCH_STOCK"}}
        compare(a, b) ==
            LET aTargeted == a.targetUserEmail = userEmail
                bTargeted == b.targetUserEmail = userEmail
                aInterest == a.symbol \in userInterests
                bInterest == b.symbol \in userInterests
            IN IF aTargeted /\ ~bTargeted THEN 0 - 1
               ELSE IF ~aTargeted /\ bTargeted THEN 1
               ELSE IF aInterest /\ ~bInterest THEN 0 - 1
               ELSE IF ~aInterest /\ bInterest THEN 1
               ELSE b.timestamp - a.timestamp
        before(i, j) ==
            \/ compare(allSugs[i], allSugs[j]) < 0
            \/ compare(allSugs[i], allSugs[j]) = 0 /\ i < j
        place(i) == 1 + Cardinality({j \in 1..Len(allSugs) : before(j, i)})
        sorted == [r \in 1..Len(allSugs) |->
                      allSugs[CHOOSE i \in 1..Len(allSugs) : place(i) = r]]
    IN SubSeq(sorted, 1, IF Len(sorted) < TipsShown THEN Len(sorted) ELSE TipsShown)

InitSuggestions ==
    /\ ServiceUnused
    /\ UiIdle

(* the tips the admin publishes: public ones and ones for a user *)
Tips ==
    {[symbol |-> <<"T", "C", "S">>, targetUserEmail |-> ""],
     [symbol |-> <<"I", "N", "F", "Y">>, targetUserEmail |-> ""],
     [symbol |-> <<"I", "N", "F", "Y">>, targetUserEmail |-> "a@x.in"],
     [symbol |-> <<"I", "N", "F", "Y">>, targetUserEmail |-> "b@x.in"]}

(* StockInput has not been mounted yet *)
Unmounted == form.userEmail = ""

(* AdminDashboard.handleAddSuggestion, before the user opens the form *)
handleAddSuggestion(sug) ==
    /\ Unmounted
    /\ Len(store.suggestions) < MaxSuggestions
    /\ addManualSuggestion(sug)
    /\ UNCHANGED <<backendVars, formVars, appVars, login>>

(* a search of the user, as App.handleStockSubmit logs it *)
SearchLogged(email, sym) ==
    /\ Unmounted
    /\ Len(store.logs) < MaxSearches
    /\ logActivity(email, "SEARCH_STOCK", SearchedPrefix \o sym, Null)
    /\ UNCHANGED <<backendVars, formVars, appVars, login>>

(* StockInput is mounted for the user *)
useEffect(userEmail) ==
    /\ Unmounted
    /\ form' = [form EXCEPT !.userEmail = userEmail,
                            !.proSuggestions = prioritizedSugs(userEmail)]
    /\ UNCHANGED <<backendVars, submitted, storeVars, appVars, login>>

NextSuggestions ==
    \/ \E sug \in Tips : handleAddSuggestion(sug)
    \/ \E email \in Emails : SearchLogged(email, <<"T", "C", "S">>)
    \/ \E userEmail \in Emails : useEffect(userEmail)

SpecSuggestions == InitSuggestions /\ [][NextSuggestions]_vars

(* C29: at most four suggestions are displayed; none of them is targeted at
   an email other than the user's; the ones targeted at the user come
   before all others. *)
TipsForUserOnly ==
    /\ Len(form.proSuggestions) <= 4
    /\ \A k \in 1..Len(form.proSuggestions) :
           /\ form.proSuggestions[k].targetUserEmail \in {"", form.userEmail}
           /\ \A j \in 1..(k - 1) :
                  form.proSuggestions[k].targetUserEmail = form.userEmail
                      => form.proSuggestions[j].targetUserEmail = form.userEmail

====
